---------------------------- MODULE Spec2Model ----------------------------
(***************************************************************************)
(* The layout constraint solver of rid3 (src/src/ui/layout.rs) and the     *)
(* flow container that feeds it (src/src/ui/flow.rs).                      *)
(*                                                                         *)
(* A Domain value (Px = f32) is modelled as the fraction <<n, d>> it is,   *)
(* in lowest terms with d a power of two; 0.0 is <<0, 1>> and -0.0 is      *)
(* <<0, -1>>, +infinity is <<1, 0>>, -infinity is <<-1, 0>> and NaN is     *)
(* <<0, 0>>.  Every sum, product and quotient is rounded to the nearest    *)
(* value with a significand of 24 bits, ties to even, as f32 does.  The    *)
(* exponent range of f32 is not modelled.                                  *)
(***************************************************************************)
EXTENDS Integers, Sequences, FiniteSets, TLC

(***************************************************************************)
(* Bounds of the model.                                                    *)
(***************************************************************************)
\* number of persistent cells a client of System may register with var()
NumCells == 3
\* number of equal/distance/order calls made before solve()
MaxCons == 2
\* number of solver steps explored in one solve() call
MaxSteps == 120
\* number of System::area calls made on one System built call by call
MaxAreas == 2
\* number of persistent cells that hold something else than 0.0 before a pass
MaxHeld == 40

VARIABLES
    pc,           \* "build" | "solve" | "bisect" | "returned" | "panicked"
    err,          \* the panic message of a fatal failure, "" while none
    layout,       \* how the build has laid the persistent cells in memory
    cells,        \* the persistent min cells var() has taken, in call order
    arena,        \* var_arena: the transient max cells, in allocation order
    variables,    \* System.variables, in registration order
    constraints,  \* System.constraints, front of the queue first
    age,          \* the staleness counter of solve()
    steps,        \* solver steps taken so far in this solve()
    used,         \* the strategies that assigned a Variable in this solve()
    added,        \* the queue as solve() was entered
    given,        \* the cells as solve() was entered
    root,         \* the widget tree compute() was called on, NoRoot if none
    viewport,     \* <<w, h>> of that compute() call
    areas,        \* the boxes System::area has made, in call order
    before,       \* the previous compute(): the rectangles it left, <<>> if
                  \* none, and whether this pass pins every edge to them
    editor,       \* an Editor's compiler clients rustc and new_rustc with
                  \* their threads and channels, NoEditor if none
    set           \* a tab Set and what its last call did, NoSet if none

vars == <<pc, err, layout, cells, arena, variables, constraints, age, steps,
          used, added, given, root, viewport, areas, before, editor, set>>

\* no Editor is running
NoEditor == [kind |-> "none"]

\* no tab Set has been made
NoSet == [kind |-> "none"]

(***************************************************************************)
(* Domain: impl Domain for Px, and the f32 operators it relies on.         *)
(***************************************************************************)
RECURSIVE GCD(_, _)
GCD(a, b) == IF b = 0 THEN a ELSE GCD(b, a % b)

Abs(n) == IF n < 0 THEN -n ELSE n

Sgn(n) == IF n < 0 THEN -1 ELSE IF n > 0 THEN 1 ELSE 0

RECURSIVE Pow2(_)
Pow2(k) == IF k = 0 THEN 1 ELSE 2 * Pow2(k - 1)

\* the fraction n/d (d # 0) in lowest terms with a positive denominator
Frac(n, d) ==
    LET g == GCD(Abs(n), Abs(d))
    IN  <<Sgn(d) * (n \div g), Abs(d) \div g>>

\* 2^24: an f32 has a significand of 24 bits
Significand == 16777216

\* the bits n >= 0 has beyond the 24 of a significand
RECURSIVE Excess(_)
Excess(n) == IF n < Significand THEN 0 ELSE 1 + Excess(n \div 2)

\* q with remainder r of a division by b, rounded to nearest, ties to even
Nearest(q, r, b) ==
    IF 2 * r > b \/ (2 * r = b /\ q % 2 = 1) THEN q + 1 ELSE q

\* the significand m >= 0 with s bits dropped, over the denominator d
Scaled(sgn, m, s, d) ==
    IF d >= Pow2(s) THEN Frac(sgn * m, d \div Pow2(s))
    ELSE <<sgn * m * (Pow2(s) \div d), 1>>

\* n >= 0 over d, rounded to a significand of 24 bits by dropping s bits
Dropped(sgn, n, s, d) ==
    Scaled(sgn, Nearest(n \div Pow2(s), n % Pow2(s), Pow2(s)), s, d)

\* the f32 nearest to the fraction x, whose denominator is a power of two
Round(x) ==
    IF Abs(x[1]) < Significand THEN x
    ELSE Dropped(Sgn(x[1]), Abs(x[1]), Excess(Abs(x[1])), x[2])

\* long division by b: the bits q of the quotient so far, the remainder r
\* and the number k of bits behind the point, until q has 24 bits or r is 0
RECURSIVE Divide(_, _, _, _)
Divide(q, r, b, k) ==
    IF r = 0 \/ 2 * q >= Significand THEN <<q, r, k>>
    ELSE Divide(2 * q + (IF 2 * r >= b THEN 1 ELSE 0), (2 * r) % b, b, k + 1)

\* the long division l by b rounded once to a significand of 24 bits: the s
\* bits q has beyond 24 are dropped together with the remainder
Significant(l, b, s) ==
    Pow2(s) * Nearest(l[1] \div Pow2(s), (l[1] % Pow2(s)) * b + l[2],
                      Pow2(s) * b)

\* the f32 of the long division l by b, times dy / dx
Quotient(sgn, l, b, dy, dx) ==
    Frac(sgn * Significant(l, b, Excess(l[1])) * dy, Pow2(l[3]) * dx)

V(n) == <<n, 1>>

zero == <<0, 1>>

one == <<1, 1>>

infinity == <<1, 0>>

NaN == <<0, 0>>

IsNaN(x) == x = NaN

IsFinite(x) == x[2] # 0

\* f32 unary -: a zero changes its sign too
neg(x) == IF x[1] = 0 THEN <<0, -x[2]>> ELSE <<-x[1], x[2]>>

\* the sign bit of x, which is not NaN
Negative(x) == x[1] < 0 \/ x[2] < 0

\* x with the sign bit s, x having none
Signed(s, x) == IF s THEN neg(x) ELSE x

\* f32 ==: NaN equals nothing, both infinities equal themselves, 0.0
\* equals -0.0
eq(x, y) ==
    ~IsNaN(x) /\ ~IsNaN(y) /\ (x = y \/ (x[1] = 0 /\ y[1] = 0))

\* the numerator of the finite x over the denominator d, a multiple of its own
Over(x, d) == IF x[1] = 0 THEN 0 ELSE x[1] * (d \div x[2])

\* the greater of two denominators
Common(x, y) == IF x[2] >= y[2] THEN x[2] ELSE y[2]

\* f32 <
lt(x, y) ==
    /\ ~IsNaN(x)
    /\ ~IsNaN(y)
    /\ IF x[2] = 0 /\ y[2] = 0 THEN x[1] < y[1]
       ELSE IF x[2] = 0 THEN x[1] < 0
       ELSE IF y[2] = 0 THEN y[1] > 0
       ELSE Over(x, Common(x, y)) < Over(y, Common(x, y))

le(x, y) == lt(x, y) \/ eq(x, y)

gt(x, y) == lt(y, x)

ge(x, y) == le(y, x)

\* f32 +
add(x, y) ==
    IF IsNaN(x) \/ IsNaN(y) THEN NaN
    ELSE IF x[2] = 0 /\ y[2] = 0 THEN (IF x = y THEN x ELSE NaN)
    ELSE IF x[2] = 0 THEN x
    ELSE IF y[2] = 0 THEN y
    ELSE IF x[1] = 0 /\ y[1] = 0
    THEN Signed(Negative(x) /\ Negative(y), zero)
    ELSE Round(Frac(Over(x, Common(x, y)) + Over(y, Common(x, y)),
                    Common(x, y)))

sub(x, y) == add(x, neg(y))

\* f32 *
mul(x, y) ==
    IF IsNaN(x) \/ IsNaN(y) THEN NaN
    ELSE IF x[2] = 0 \/ y[2] = 0
         THEN (IF x[1] = 0 \/ y[1] = 0 THEN NaN
               ELSE <<Sgn(x[1]) * Sgn(y[1]), 0>>)
    ELSE IF x[1] = 0 \/ y[1] = 0
    THEN Signed(Negative(x) # Negative(y), zero)
    ELSE Round(Frac(x[1] * y[1], x[2] * y[2]))

\* f32 /
div(x, y) ==
    IF IsNaN(x) \/ IsNaN(y) THEN NaN
    ELSE IF x[2] = 0 /\ y[2] = 0 THEN NaN
    ELSE IF x[2] = 0 THEN Signed(Negative(x) # Negative(y), infinity)
    ELSE IF y[2] = 0 THEN Signed(Negative(x) # Negative(y), zero)
    ELSE IF y[1] = 0
    THEN (IF x[1] = 0 THEN NaN
          ELSE Signed(Negative(x) # Negative(y), infinity))
    ELSE IF x[1] = 0 THEN Signed(Negative(x) # Negative(y), zero)
    ELSE Quotient(Sgn(x[1]) * Sgn(y[1]),
                  Divide(Abs(x[1]) \div Abs(y[1]), Abs(x[1]) % Abs(y[1]),
                         Abs(y[1]), 0),
                  Abs(y[1]), y[2], x[2])

sign(x) == IF lt(x, zero) THEN neg(one) ELSE one

abs(x) == mul(x, sign(x))

(***************************************************************************)
(* Bounds<T>                                                               *)
(***************************************************************************)
Bounds(lo, hi) == [min |-> lo, max |-> hi]

\* Bounds::equal
Bounds_equal(x) == Bounds(x, x)

\* Bounds::restrict without its two panics
restrict_unchecked(self, other) ==
    [ok |-> TRUE,
     b |-> Bounds(IF gt(other.min, self.min) THEN other.min ELSE self.min,
                  IF lt(other.max, self.max) THEN other.max ELSE self.max)]

\* Bounds::restrict that also panics when the two intervals only touch
restrict_apart(self, other) ==
    IF ge(other.min, self.max) \/ le(other.max, self.min)
    THEN [ok |-> FALSE, b |-> self]
    ELSE [ok |-> TRUE,
          b |-> Bounds(IF gt(other.min, self.min) THEN other.min ELSE self.min,
                       IF lt(other.max, self.max) THEN other.max
                       ELSE self.max)]

\* Bounds::restrict: ok is FALSE when it panics; b is self as the call left it
restrict(self, other) ==
    LET omin == self.min
        omax == self.max
        setMin == gt(other.min, omin)
        panic1 == setMin /\ gt(other.min, omax)
        min1 == IF setMin THEN other.min ELSE self.min
        setMax == lt(other.max, omax)
        panic2 == setMax /\ lt(other.max, omin)
        max1 == IF setMax THEN other.max ELSE self.max
    IN  IF panic1 THEN [ok |-> FALSE, b |-> self]
        ELSE IF panic2 THEN [ok |-> FALSE, b |-> Bounds(min1, self.max)]
        ELSE [ok |-> TRUE, b |-> Bounds(min1, max1)]

\* impl Neg for Bounds
Bounds_neg(b) == Bounds(neg(b.max), neg(b.min))

\* impl Sub<T> for Bounds
Bounds_sub_scalar(b, x) == Bounds(sub(b.min, x), sub(b.max, x))

\* impl Mul<T> for Bounds
Bounds_mul(b, x) ==
    IF lt(x, zero) THEN Bounds(mul(b.max, x), mul(b.min, x))
    ELSE Bounds(mul(b.min, x), mul(b.max, x))

\* impl Div<T> for Bounds
Bounds_div(b, x) ==
    IF lt(x, zero) THEN Bounds(div(b.max, x), div(b.min, x))
    ELSE Bounds(div(b.min, x), div(b.max, x))

\* impl Add for Bounds
Bounds_add(a, b) == Bounds(add(a.min, b.min), add(a.max, b.max))

\* impl Sub for Bounds
Bounds_sub(a, b) == Bounds_add(a, Bounds_neg(b))

\* derived PartialEq of Bounds
Bounds_eq(a, b) == eq(a.min, b.min) /\ eq(a.max, b.max)

(***************************************************************************)
(* Variable: a pair of cells.  A store st = [cells, arena] holds the cells *)
(* a Variable v = [min |-> cell id, max |-> arena index] points to.        *)
(***************************************************************************)
Store(c, a) == [cells |-> c, arena |-> a]

RECURSIVE boxes(_)
\* the number of area() calls Layout::collect makes on the tree t
boxes(t) ==
    IF t.kind = "flow" THEN boxes(t.a) + boxes(t.b)
    ELSE IF t.kind = "demo" THEN 1 + boxes(t.label)
    ELSE 1

\* the deepest nesting of flows in a widget tree
MaxDepth == 2

\* the address ranks a build gives the fields x1, y1, x2, y2 of a BB.  Two
\* cells of one box meet in a Constraint only as x1 with x2 or as y1 with
\* y2, and one order stands for each of the four cases
FieldOrders ==
    {<<1, 2, 3, 4>>, <<3, 2, 1, 4>>, <<1, 4, 3, 2>>, <<3, 4, 1, 2>>}

\* n cells of the client's own, registered one by one with var(): they lie
\* at any addresses
CellLayouts(n) ==
    {[kind |-> "cells", rank |-> p] : p \in Permutations(1..n)}

\* a widget tree is one value, every widget nested in its parent, and the
\* build orders the fields of each struct: the cells of a BB, the bb and the
\* label of a Demo, the two kids of the flow![] at each depth
StructLayouts ==
    {[kind |-> "structs", fields |-> f, label_first |-> d, kids_swapped |-> q] :
        f \in FieldOrders, d \in BOOLEAN, q \in [1..MaxDepth -> BOOLEAN]}

Layouts == CellLayouts(NumCells) \cup StructLayouts

RECURSIVE places(_, _, _)
\* where the boxes of the tree t lie, in area() order, t being at place
\* base and its flow at depth
places(t, base, depth) ==
    IF t.kind = "flow"
    THEN IF layout.kids_swapped[depth]
         THEN places(t.a, base + boxes(t.b), depth + 1)
                  \o places(t.b, base, depth + 1)
         ELSE places(t.a, base, depth + 1)
                  \o places(t.b, base + boxes(t.a), depth + 1)
    ELSE IF t.kind = "demo"
    THEN IF layout.label_first THEN <<base + 1, base>> ELSE <<base, base + 1>>
    ELSE <<base>>

\* the address of the persistent cell c, for the order of two of them
addr(c) ==
    IF layout.kind = "cells" THEN layout.rank[c]
    ELSE 4 * places(root, 0, 1)[((c - 1) \div 4) + 1]
             + layout.fields[((c - 1) % 4) + 1]

\* Variable::eq: identity of the min cell
Variable_eq(a, b) == a.min = b.min

\* Variable::cmp == Less
Variable_lt(a, b) == addr(a.min) < addr(b.min)

\* Variable::bounds
bounds(st, v) == Bounds(st.cells[v.min], st.arena[v.max])

\* Variable::value: is_some
resolved(st, v) == eq(st.cells[v.min], st.arena[v.max])

\* Variable::value: the value of a resolved Variable
value(st, v) == st.cells[v.min]

\* Variable::restrict: the cells after r = self.bounds().restrict(b)
Variable_set(st, v, r) ==
    IF r.ok
    THEN [ok |-> TRUE,
          st |-> Store([st.cells EXCEPT ![v.min] = r.b.min],
                       [st.arena EXCEPT ![v.max] = r.b.max])]
    ELSE [ok |-> FALSE, st |-> st]

\* a restrict that replaces the bounds of the Variable by b
Variable_replaced(st, v, b) == Variable_set(st, v, [ok |-> TRUE, b |-> b])

\* Variable::restrict
Variable_restrict(st, v, b) == Variable_set(st, v, restrict(bounds(st, v), b))

\* Variable::assign
assign(st, v, x) == Variable_restrict(st, v, Bounds_equal(x))

(***************************************************************************)
(* Term and Constraint                                                     *)
(***************************************************************************)
Term(f, v) == [factor |-> f, var |-> v]

Constraint(ts, p, b) == [terms |-> ts, priority |-> p, bounds |-> b]

\* derived PartialEq of Term
Term_eq(s, t) == eq(s.factor, t.factor) /\ Variable_eq(s.var, t.var)

\* PartialEq of Vec<Term>
Terms_eq(ss, ts) ==
    /\ Len(ss) = Len(ts)
    /\ \A k \in 1..Len(ss) : Term_eq(ss[k], ts[k])

\* the Constraint System::distance pushes
distance_constraint(a, b, x) ==
    Constraint(<<Term(one, b), Term(neg(one), a)>>, 0, Bounds_equal(x))

\* the Constraint System::order pushes
order_constraint(a, b) ==
    Constraint(<<Term(one, a), Term(neg(one), b)>>, 0,
               Bounds(neg(infinity), zero))

(***************************************************************************)
(* System::solve, Strategy A: one iteration of the 'simplify loop.  The    *)
(* iteration is written as a pipeline: each operator takes the values the  *)
(* code has computed so far and hands on to the next statement.            *)
(***************************************************************************)
\* the elimination loop over terms[i..]: acc carries the kept terms, the
\* Constraint's bounds, new_bounds and modified
RECURSIVE eliminate(_, _, _, _)
eliminate(st, terms, i, acc) ==
    IF i > Len(terms) THEN acc
    ELSE IF resolved(st, terms[i].var)
         THEN eliminate(st, terms, i + 1,
                  [acc EXCEPT
                      !.bounds = Bounds_sub_scalar(acc.bounds,
                                     mul(value(st, terms[i].var),
                                         terms[i].factor)),
                      !.modified = TRUE])
         ELSE eliminate(st, terms, i + 1,
                  [acc EXCEPT
                      !.new_bounds = Bounds_add(acc.new_bounds,
                                         Bounds_mul(bounds(st, terms[i].var),
                                                    terms[i].factor)),
                      !.terms = Append(acc.terms, terms[i])])

\* one insertion of the stable sort: t goes behind every term not greater
RECURSIVE insert_term(_, _)
insert_term(sorted, t) ==
    IF sorted = <<>> THEN <<t>>
    ELSE IF Variable_lt(t.var, sorted[Len(sorted)].var)
         THEN Append(insert_term(SubSeq(sorted, 1, Len(sorted) - 1), t),
                     sorted[Len(sorted)])
         ELSE Append(sorted, t)

\* terms.sort_by(|a, b| a.var.cmp(&b.var))
RECURSIVE sort_terms(_)
sort_terms(terms) ==
    IF terms = <<>> THEN <<>>
    ELSE insert_term(sort_terms(SubSeq(terms, 1, Len(terms) - 1)),
                     terms[Len(terms)])

\* a normalization that leaves the factors as they are
normalize_terms_kept(terms) == terms

\* "Normalize terms so that the first one has factor=1": the terms
normalize_terms(terms) ==
    IF terms # <<>> /\ ~eq(terms[1].factor, one)
    THEN [k \in 1..Len(terms) |->
             Term(div(terms[k].factor, terms[1].factor), terms[k].var)]
    ELSE terms

\* a normalization that leaves the bounds as they are
normalize_bounds_kept(terms, b) == b

\* "Normalize terms so that the first one has factor=1": the bounds
normalize_bounds(terms, b) ==
    IF terms # <<>> /\ ~eq(terms[1].factor, one)
    THEN Bounds_div(b, terms[1].factor)
    ELSE b

\* the queue positions of the Constraints with the same terms
merge_hits(queue, terms) ==
    {k \in 1..Len(queue) : Terms_eq(queue[k].terms, terms)}

\* the smallest member of a set of positions, 0 for the empty set
first_of(hits) ==
    IF hits = {} THEN 0 ELSE CHOOSE k \in hits : \A m \in hits : k <= m

\* the index of the first queued Constraint with the same terms, 0 if none
merge_index(queue, terms) == first_of(merge_hits(queue, terms))

\* the result of one solver step
Outcome(status, message, st, queue, a, kind, modified) ==
    [status |-> status, err |-> message, st |-> st, constraints |-> queue,
     age |-> a, kind |-> kind, modified |-> modified]

\* the end of an iteration without the check for unresolved Variables
finish_unchecked(st, queue, vs, a, kind, modified) ==
    IF queue = <<>> THEN Outcome("returned", "", st, queue, a, kind, modified)
    ELSE Outcome("continue", "", st, queue, IF modified THEN 0 ELSE a + 1,
                 kind, modified)

\* the end of an iteration: the queue-empty check and the age update
finish(st, queue, vs, a, kind, modified) ==
    IF queue = <<>>
    THEN IF \E k \in 1..Len(vs) : ~resolved(st, vs[k])
         THEN Outcome("panic", "Unresolved ranges", st, queue, a, kind,
                      modified)
         ELSE Outcome("returned", "", st, queue, a, kind, modified)
    ELSE Outcome("continue", "", st, queue, IF modified THEN 0 ELSE a + 1,
                 kind, modified)

\* a merge that drops the dequeued Constraint with its bounds
merged_dropped(st, rest, a, m, rm, modified) ==
    Outcome("continue", "", st, rest, a, "merge", modified)

\* c.bounds.restrict(bounds); continue 'simplify
merged(st, rest, a, m, rm, modified) ==
    Outcome(IF rm.ok THEN "continue" ELSE "panic",
            IF rm.ok THEN "" ELSE "restrict",
            st, [rest EXCEPT ![m].bounds = rm.b], a, "merge", modified)

\* terms.len() == 1: t.var.restrict(bounds) has run with result r
one_term(st, rest, vs, a, r) ==
    IF r.ok THEN finish(r.st, rest, vs, a, "one", TRUE)
    ELSE Outcome("panic", "restrict", st, rest, a, "one", TRUE)

\* terms.len() == 2 and b.factor == -1: both restricts have run, the
\* Constraint c is pushed back after them
narrowed(st, rest, c, vs, a, ra, rb, modified) ==
    IF ~ra.ok \/ ~rb.ok
    THEN Outcome("panic", "restrict", rb.st, rest, a, "push", modified)
    ELSE finish(rb.st, Append(rest, c), vs, a, "push",
                \/ modified
                \/ ~Bounds_eq(bounds(st, c.terms[1].var),
                              bounds(rb.st, c.terms[1].var))
                \/ ~Bounds_eq(bounds(st, c.terms[2].var),
                              bounds(rb.st, c.terms[2].var)))

\* a narrowing of b by the bounds a.var.restrict has just left in a
narrow_b_after(st, rest, c, vs, a, ra, modified) ==
    narrowed(st, rest, c, vs, a, ra,
             IF ra.ok
             THEN Variable_restrict(ra.st, c.terms[2].var,
                                    Bounds_sub(bounds(ra.st, c.terms[1].var),
                                               c.bounds))
             ELSE ra,
             modified)

\* terms.len() == 2 and b.factor == -1: a.var.restrict has run
narrow_b(st, rest, c, vs, a, ra, modified) ==
    narrowed(st, rest, c, vs, a, ra,
             IF ra.ok
             THEN Variable_restrict(ra.st, c.terms[2].var,
                                    Bounds_sub(bounds(st, c.terms[1].var),
                                               c.bounds))
             ELSE ra,
             modified)

\* "Opportunistic a - b range reduction.", then the push_back of the
\* Constraint c
narrow_two(st, rest, c, vs, a, modified) ==
    IF ~eq(c.terms[1].factor, one)
    THEN Outcome("panic", "assert", st, rest, a, "push", modified)
    ELSE IF ~eq(c.terms[2].factor, neg(one))
    THEN finish(st, Append(rest, c), vs, a, "push", modified)
    ELSE narrow_b(st, rest, c, vs, a,
                  Variable_restrict(st, c.terms[1].var,
                                    Bounds_add(bounds(st, c.terms[2].var),
                                               c.bounds)),
                  modified)

\* the Constraint did not merge: the branches on terms.len()
process(st, rest, vs, a, priority, terms, b, modified) ==
    IF Len(terms) = 0 THEN finish(st, rest, vs, a, "empty", TRUE)
    ELSE IF Len(terms) = 1
    THEN IF ~eq(terms[1].factor, one)
         THEN Outcome("panic", "assert", st, rest, a, "one", TRUE)
         ELSE one_term(st, rest, vs, a,
                       Variable_restrict(st, terms[1].var, b))
    ELSE IF Len(terms) = 2
    THEN narrow_two(st, rest, Constraint(terms, priority, b), vs, a,
                    modified)
    ELSE finish(st, Append(rest, Constraint(terms, priority, b)), vs, a,
                "push", modified)

\* "Try to merge this constraint with an existing one.": m is the match
merge_or_process(st, rest, vs, a, priority, terms, b, modified, m) ==
    IF m # 0
    THEN merged(st, rest, a, m, restrict(rest[m].bounds, b), modified)
    ELSE process(st, rest, vs, a, priority, terms, b, modified)

\* the terms are sorted and normalized
normalized(st, rest, vs, a, priority, terms, b, modified) ==
    merge_or_process(st, rest, vs, a, priority, terms, b, modified,
                     merge_index(rest, terms))

\* bounds.restrict(new_bounds) taken to succeed whatever it finds
restricted_unchecked(st, rest, vs, a, priority, e, r, sorted) ==
    normalized(st, rest, vs, a, priority, normalize_terms(sorted),
               normalize_bounds(sorted, r.b),
               e.modified \/ ~Bounds_eq(r.b, e.bounds))

\* bounds.restrict(new_bounds) has run with result r
restricted(st, rest, vs, a, priority, e, r, sorted) ==
    IF ~r.ok
    THEN Outcome("panic", "restrict", st, rest, a, "eliminate", e.modified)
    ELSE normalized(st, rest, vs, a, priority, normalize_terms(sorted),
                    normalize_bounds(sorted, r.b),
                    e.modified \/ ~Bounds_eq(r.b, e.bounds))

\* the elimination loop has run with result e
eliminated(st, rest, vs, a, priority, e) ==
    restricted(st, rest, vs, a, priority, e,
               restrict(e.bounds, e.new_bounds), sort_terms(e.terms))

\* one iteration of 'simplify: pop the front Constraint and process it
simplify(st, queue, vs, a) ==
    eliminated(st, Tail(queue), vs, a, Head(queue).priority,
               eliminate(st, Head(queue).terms, 1,
                   [terms |-> <<>>, bounds |-> Head(queue).bounds,
                    new_bounds |-> Bounds_equal(zero), modified |-> FALSE]))

(***************************************************************************)
(* System::solve, Strategy B: "Opportunistic solving by chaining a - b     *)
(* constraints."  A chain ch holds q, s, min, max, flex, base and cs (the  *)
(* positions of the Constraints already linked).                           *)
(***************************************************************************)
\* enum Span
Fixed(x) == [fixed |-> TRUE, x |-> x]

Flex(x) == [fixed |-> FALSE, x |-> x]

\* one insertion of the stable sort by descending priority
RECURSIVE insert_by_priority(_, _)
insert_by_priority(sorted, c) ==
    IF sorted = <<>> THEN <<c>>
    ELSE IF c.priority > sorted[Len(sorted)].priority
         THEN Append(insert_by_priority(SubSeq(sorted, 1, Len(sorted) - 1), c),
                     sorted[Len(sorted)])
         ELSE Append(sorted, c)

\* constraints.sort_by(|a, b| b.priority.cmp(&a.priority))
RECURSIVE sort_by_priority(_)
sort_by_priority(cons) ==
    IF cons = <<>> THEN <<>>
    ELSE insert_by_priority(sort_by_priority(SubSeq(cons, 1, Len(cons) - 1)),
                            cons[Len(cons)])

\* min and max widened to cover the bounds b of a chain Variable
widen(ch, b) ==
    [ch EXCEPT !.min = IF lt(b.min, ch.min) THEN b.min ELSE ch.min,
               !.max = IF gt(b.max, ch.max) THEN b.max ELSE ch.max]

\* match span { Fixed(x) => base = base + x, Flex(x) => flex = flex + x }
count_span(ch, span) ==
    IF span.fixed THEN [ch EXCEPT !.base = add(ch.base, span.x)]
    ELSE [ch EXCEPT !.flex = add(ch.flex, span.x)]

\* the span of a Constraint offered to a chain
link_span(bd) ==
    IF eq(bd.min, bd.max) THEN Fixed(abs(bd.min)) ELSE Flex(one)

\* where the Constraint a - b in bd attaches to the chain q
link_side(q, a, b, bd) ==
    IF le(bd.max, zero) /\ Variable_eq(q[1], b) THEN "front_a"
    ELSE IF le(bd.max, zero) /\ Variable_eq(q[Len(q)], a) THEN "back_b"
    ELSE IF ge(bd.min, zero) /\ Variable_eq(q[1], a) THEN "front_b"
    ELSE IF ge(bd.min, zero) /\ Variable_eq(q[Len(q)], b) THEN "back_a"
    ELSE "none"

\* the chain with Constraint j attached at side
link_at(st, j, ch, a, b, span, side) ==
    IF side = "none" THEN ch
    ELSE count_span(
             widen([ch EXCEPT
                       !.q = IF side = "front_a" THEN <<a>> \o ch.q
                             ELSE IF side = "front_b" THEN <<b>> \o ch.q
                             ELSE IF side = "back_b" THEN Append(ch.q, b)
                             ELSE Append(ch.q, a),
                       !.s = IF side \in {"front_a", "front_b"}
                             THEN <<span>> \o ch.s
                             ELSE Append(ch.s, span),
                       !.cs = ch.cs \cup {j}],
                   bounds(st, IF side \in {"front_b", "back_b"} THEN b ELSE a)),
             span)

\* the chain with Constraint j offered to it: the body of the inner for loop
chain_link(st, cons, j, ch) ==
    IF j \in ch.cs \/ Len(cons[j].terms) # 2 THEN ch
    ELSE IF ~eq(cons[j].terms[2].factor, neg(one)) THEN ch
    ELSE IF ~eq(cons[j].terms[1].factor, one) THEN [ch EXCEPT !.err = "assert"]
    ELSE link_at(st, j, ch, cons[j].terms[1].var, cons[j].terms[2].var,
                 link_span(cons[j].bounds),
                 link_side(ch.q, cons[j].terms[1].var, cons[j].terms[2].var,
                           cons[j].bounds))

\* the inner for loop over the Constraints j..
RECURSIVE chain_pass(_, _, _, _)
chain_pass(st, cons, j, ch) ==
    IF j > Len(cons) \/ ch.err # "" THEN ch
    ELSE chain_pass(st, cons, j + 1, chain_link(st, cons, j, ch))

RECURSIVE chain_grow(_, _, _)
\* if q.len() <= q_len { break; }
chain_again(st, cons, ch, ch1) ==
    IF ch1.err # "" \/ Len(ch1.q) <= Len(ch.q) THEN ch1
    ELSE chain_grow(st, cons, ch1)

\* the loop that repeats the passes until the chain stops growing
chain_grow(st, cons, ch) ==
    chain_again(st, cons, ch, chain_pass(st, cons, 1, ch))

\* the span of the Constraint that seeds a chain
seed_span(bd) == IF eq(bd.min, bd.max) THEN Fixed(bd.min) ELSE Flex(one)

\* no chain
no_chain(message) == [seeded |-> FALSE, err |-> message]

\* the chain <<a, b>> of seed i, "Normalize[d] to a <= b, with bounds = b - a"
seed_chain(st, cons, i, a, b, bd) ==
    IF le(bd.max, zero) THEN no_chain("")
    ELSE chain_grow(st, cons,
             count_span(
                 widen([seeded |-> TRUE, err |-> "", q |-> <<a, b>>,
                        s |-> <<seed_span(bd)>>, min |-> bounds(st, a).min,
                        max |-> bounds(st, a).max, flex |-> add(one, one),
                        base |-> zero, cs |-> {i}],
                       bounds(st, b)),
                 seed_span(bd)))

\* the chain seeded by Constraint i; seeded is FALSE when i is skipped
chain_seed(st, cons, i) ==
    IF Len(cons[i].terms) # 2 THEN no_chain("")
    ELSE IF ~eq(cons[i].terms[2].factor, neg(one)) THEN no_chain("")
    ELSE IF ~eq(cons[i].terms[1].factor, one) THEN no_chain("assert")
    ELSE IF ge(cons[i].bounds.min, zero)
    THEN seed_chain(st, cons, i, cons[i].terms[2].var, cons[i].terms[1].var,
                    cons[i].bounds)
    ELSE seed_chain(st, cons, i, cons[i].terms[1].var, cons[i].terms[2].var,
                    Bounds_neg(cons[i].bounds))

\* let unit = (max - min - base) / flex
flex_unit_unbased(ch) == div(sub(ch.max, ch.min), ch.flex)

\* let unit = (max - min - base) / flex
flex_unit(ch) == div(sub(sub(ch.max, ch.min), ch.base), ch.flex)

RECURSIVE assign_chain(_, _, _, _, _, _)
\* q[k] has been assigned with result r: the rest of the chain
assign_rest(q, s, k, val, unit, r) ==
    IF ~r.ok \/ k = Len(q) THEN r
    ELSE assign_chain(r.st, q, s, k + 1,
             add(val, IF s[k].fixed THEN s[k].x ELSE mul(s[k].x, unit)), unit)

\* the assignments along the chain q[k..], val being the value for q[k]
assign_chain(st, q, s, k, val, unit) ==
    assign_rest(q, s, k, val, unit, assign(st, q[k], val))

\* the result of Strategy B
Chained(assigned, message, st, ch, unit) ==
    [assigned |-> assigned, err |-> message, st |-> st, ch |-> ch,
     unit |-> unit]

\* the chain has been assigned with result r
chain_assigned(ch, unit, r) ==
    Chained(r.ok, IF r.ok THEN "" ELSE "restrict", r.st, ch, unit)

RECURSIVE chain_from(_, _, _)
\* if T::zero() < unit && unit < T::infinity() { assign the chain; break; }
chain_unit(st, cons, i, ch, unit) ==
    IF lt(zero, unit) /\ lt(unit, infinity)
    THEN IF Len(ch.s) # Len(ch.q) - 1
         THEN Chained(FALSE, "assert", st, ch, unit)
         ELSE chain_assigned(ch, unit,
                  assign_chain(st, ch.q, ch.s, 1, add(ch.min, unit), unit))
    ELSE chain_from(st, cons, i + 1)

\* seed i has given the chain ch
chain_seeded(st, cons, i, ch) ==
    IF ch.err # "" THEN Chained(FALSE, ch.err, st, ch, zero)
    ELSE IF ~ch.seeded THEN chain_from(st, cons, i + 1)
    ELSE chain_unit(st, cons, i, ch, flex_unit(ch))

\* the for loop over the seeds i..: the first chain with a usable unit is
\* assigned
chain_from(st, cons, i) ==
    IF i > Len(cons) THEN Chained(FALSE, "", st, no_chain(""), zero)
    ELSE chain_seeded(st, cons, i, chain_seed(st, cons, i))

\* Strategy B on the queue
chain(st, queue) == chain_from(st, sort_by_priority(queue), 1)

(***************************************************************************)
(* System::solve, Strategy C: "Opportunistic solving by picking a point in *)
(* a ranged variable."                                                     *)
(***************************************************************************)
\* -T::infinity() < min && min < max && max < T::infinity()
ranged(b) ==
    lt(neg(infinity), b.min) /\ lt(b.min, b.max) /\ lt(b.max, infinity)

\* a pick of the ranged Variable registered last, 0 if none
pick_ranged_last(st, vs) ==
    IF \A k \in 1..Len(vs) : ~ranged(bounds(st, vs[k])) THEN 0
    ELSE CHOOSE k \in 1..Len(vs) :
             /\ ranged(bounds(st, vs[k]))
             /\ \A j \in (k + 1)..Len(vs) : ~ranged(bounds(st, vs[j]))

\* the index in variables of the Variable Strategy C picks, 0 if none
pick_ranged(st, vs) ==
    first_of({k \in 1..Len(vs) : ranged(bounds(st, vs[k]))})

\* (min + max) / (T::one() + T::one())
midpoint(b) == div(add(b.min, b.max), add(one, one))

\* v.assign((min + max) / (T::one() + T::one()))
bisect(st, v) == assign(st, v, midpoint(bounds(st, v)))

(***************************************************************************)
(* System as a value: the cells, the queue and the boxes made so far.      *)
(***************************************************************************)
System(c, a, vs, q, bbs) ==
    [cells |-> c, arena |-> a, variables |-> vs, constraints |-> q,
     areas |-> bbs, held |-> <<>>]

\* System::new
System_new == System(<<>>, <<>>, <<>>, <<>>, <<>>)

\* what the k-th persistent cell var() takes from sys holds: 0.0, the
\* Default of a Cell, unless something was left in it
prior(sys, k) ==
    IF Len(sys.cells) + k <= Len(sys.held)
    THEN sys.held[Len(sys.cells) + k]
    ELSE zero

\* a cell that keeps what it held
Cell_kept(old, x) == old

\* Cell::set on a cell that held old
Cell_set(old, x) == x

\* the Variable the k-th var() call from sys makes
new_var(sys, k) == [min |-> Len(sys.cells) + k, max |-> Len(sys.arena) + k]

\* System::var on the next persistent cell
var(sys) ==
    [sys EXCEPT !.cells = Append(sys.cells,
                                 Cell_set(prior(sys, 1), neg(infinity))),
                !.arena = Append(sys.arena, infinity),
                !.variables = Append(sys.variables, new_var(sys, 1))]

\* self.constraints.push_back(c)
push_back(sys, c) == [sys EXCEPT !.constraints = Append(sys.constraints, c)]

\* System::distance
distance(sys, a, b, x) == push_back(sys, distance_constraint(a, b, x))

\* the Constraint System::equal pushes
equal_constraint(a, b) == distance_constraint(b, a, zero)

\* System::equal that hands a and b to distance as they come
equal_unswapped(sys, a, b) == distance(sys, a, b, zero)

\* System::equal
equal(sys, a, b) == distance(sys, b, a, zero)

\* System::order
order(sys, a, b) == push_back(sys, order_constraint(a, b))

\* a Constraint left at the priority order gave it
priority_kept(c) == c

\* self.constraints.back_mut().unwrap().priority -= 1
lower_priority(c) == [c EXCEPT !.priority = c.priority - 1]

\* struct BB
BB(x1, y1, x2, y2) == [x1 |-> x1, y1 |-> y1, x2 |-> x2, y2 |-> y2]

\* System::area without its two orders
area_unordered(sys, bb) ==
    [sys |->
         [sys EXCEPT
             !.cells = sys.cells \o
                 <<Cell_set(prior(sys, 1), neg(infinity)),
                   Cell_set(prior(sys, 2), neg(infinity)),
                   Cell_set(prior(sys, 3), neg(infinity)),
                   Cell_set(prior(sys, 4), neg(infinity))>>,
             !.arena = sys.arena \o <<infinity, infinity, infinity, infinity>>,
             !.variables = sys.variables \o <<bb.x1, bb.y1, bb.x2, bb.y2>>,
             !.areas = Append(sys.areas, bb)],
     bb |-> bb]

\* System::area: var() on x1, y1, x2, y2 and the two orders, bb being the
\* box of the four Variables
area_of(sys, bb) ==
    [sys |->
         [sys EXCEPT
             !.cells = sys.cells \o
                 <<Cell_set(prior(sys, 1), neg(infinity)),
                   Cell_set(prior(sys, 2), neg(infinity)),
                   Cell_set(prior(sys, 3), neg(infinity)),
                   Cell_set(prior(sys, 4), neg(infinity))>>,
             !.arena = sys.arena \o <<infinity, infinity, infinity, infinity>>,
             !.variables = sys.variables \o <<bb.x1, bb.y1, bb.x2, bb.y2>>,
             !.constraints = sys.constraints \o
                 <<lower_priority(order_constraint(bb.x1, bb.x2)),
                   lower_priority(order_constraint(bb.y1, bb.y2))>>,
             !.areas = Append(sys.areas, bb)],
     bb |-> bb]

\* System::area
area(sys) ==
    area_of(sys, BB(new_var(sys, 1), new_var(sys, 2), new_var(sys, 3),
                    new_var(sys, 4)))

(***************************************************************************)
(* Widgets: Layout::collect of a leaf, a Label, a Demo and a Flow.         *)
(***************************************************************************)
\* a RectBounded with the default constrain
Leaf == [kind |-> "leaf"]

\* ui::text::Label whose font gives it w by h
Label(w, h) == [kind |-> "label", w |-> w, h |-> h]

\* demo::Demo around a Label of w by h
Demo(w, h) == [kind |-> "demo", label |-> Label(w, h)]

\* flow![dir: a, b]
Flow(dir, a, b) == [kind |-> "flow", dir |-> dir, a |-> a, b |-> b]

NoRoot == [kind |-> "none"]

\* the calls c of a constrain hook or of a flow, queued in order
constrained(sys, c, bb) ==
    [sys |-> [sys EXCEPT !.constraints = sys.constraints \o c], bb |-> bb]

\* Label::constrain
label_constrain(r, t) ==
    constrained(r.sys,
                <<distance_constraint(r.bb.x1, r.bb.x2, t.w),
                  distance_constraint(r.bb.y1, r.bb.y2, t.h)>>,
                r.bb)

\* Demo::constrain, the label being collected with result lb
demo_orders(bb, lb) ==
    constrained(lb.sys,
                <<order_constraint(bb.x1, lb.bb.x1),
                  order_constraint(lb.bb.x2, bb.x2),
                  order_constraint(bb.y1, lb.bb.y1),
                  order_constraint(lb.bb.y2, bb.y2)>>,
                bb)

\* FlowLayout for (A, B) that joins every direction as Up and Down
flow_join_stacked(dir, sys, a, b) ==
    constrained(sys,
                <<equal_constraint(a.x1, b.x1),
                  equal_constraint(a.x2, b.x2),
                  equal_constraint(a.y2, b.y1)>>,
                BB(a.x1, a.y1, b.x2, b.y2))

\* FlowLayout for (A, B): the equal calls and the box, a before b
flow_join(dir, sys, a, b) ==
    constrained(sys,
                IF dir \in {"up", "down"}
                THEN <<equal_constraint(a.x1, b.x1),
                       equal_constraint(a.x2, b.x2),
                       equal_constraint(a.y2, b.y1)>>
                ELSE <<equal_constraint(a.y1, b.y1),
                       equal_constraint(a.y2, b.y2),
                       equal_constraint(a.x2, b.x1)>>,
                BB(a.x1, a.y1, b.x2, b.y2))

\* FlowLayout for (A, B): the swap for Up and Left
flow_swap(dir, a, rb) ==
    IF dir \in {"up", "left"} THEN flow_join(dir, rb.sys, rb.bb, a)
    ELSE flow_join(dir, rb.sys, a, rb.bb)

RECURSIVE collect(_, _)
\* Demo::constrain, area() having run with result r
demo_constrain(r, t) == demo_orders(r.bb, collect(r.sys, t.label))

\* FlowLayout for (A, B), self.0.collect having run with result ra
flow_kids(ra, t) == flow_swap(t.dir, ra.bb, collect(ra.sys, t.b))

\* Layout::collect
collect(sys, t) ==
    IF t.kind = "leaf" THEN area(sys)
    ELSE IF t.kind = "label" THEN label_constrain(area(sys), t)
    ELSE IF t.kind = "demo" THEN demo_constrain(area(sys), t)
    ELSE flow_kids(collect(sys, t.a), t)

\* the four assign calls of compute on the box bb of the root
assign_rest4(r, v, x) == IF r.ok THEN assign(r.st, v, x) ELSE r

\* the four assign calls with w and h taken for each other
assign_root_swapped(st, bb, w, h) ==
    assign_rest4(assign_rest4(assign_rest4(assign(st, bb.x1, zero),
                                           bb.y1, zero),
                              bb.x2, h),
                 bb.y2, w)

assign_root(st, bb, w, h) ==
    assign_rest4(assign_rest4(assign_rest4(assign(st, bb.x1, zero),
                                           bb.y1, zero),
                              bb.x2, w),
                 bb.y2, h)

(***************************************************************************)
(* The clients of System: the calls var, assign, equal, distance, order    *)
(* and solve one by one, and compute() on a widget tree.                   *)
(***************************************************************************)
\* the values a client assigns before solve(): 0, and 2^25, whose
\* neighbours in f32 are 4 apart
AssignValues == {V(0), V(33554432)}

\* the distances a client asks for
Distances == {V(2)}

\* the widths and heights of the viewport
Widths == {V(0), V(4), V(7)}

Heights == {V(0), V(4)}

\* the widget trees compute() is called on
Roots ==
    {Leaf,
     Label(V(4), V(4)),
     Demo(V(2), V(2)),
     Flow("down", Leaf, Flow("right", Leaf, Leaf)),
     Flow("up", Leaf, Leaf),
     Flow("left", Label(V(2), V(4)), Leaf),
     Flow("right", Flow("down", Demo(V(1), V(1)), Demo(V(6), V(1))), Leaf)}

store == Store(cells, arena)

system == System(cells, arena, variables, constraints, areas)

Registered == {variables[k] : k \in 1..Len(variables)}

Init ==
    /\ pc = "build"
    /\ err = ""
    /\ layout \in Layouts
    /\ cells = <<>>
    /\ arena = <<>>
    /\ variables = <<>>
    /\ constraints = <<>>
    /\ age = 0
    /\ steps = 0
    /\ used = {}
    /\ added = <<>>
    /\ given = Store(<<>>, <<>>)
    /\ root = NoRoot
    /\ viewport = <<>>
    /\ areas = <<>>
    /\ before = [rects |-> <<>>, pinned |-> FALSE]
    /\ editor = NoEditor
    /\ set = NoSet

\* the state after a call that built the System into sys
Built(sys) ==
    /\ cells' = sys.cells
    /\ arena' = sys.arena
    /\ variables' = sys.variables
    /\ constraints' = sys.constraints
    /\ areas' = sys.areas
    /\ UNCHANGED <<pc, err, layout, age, steps, used, added, given, root,
                   viewport, before, editor,
                   set>>

\* a client calls System::var
Var ==
    /\ pc = "build"
    /\ layout.kind = "cells"
    /\ Len(variables) < NumCells
    /\ Built(var(system))

\* the state after a Variable::assign with result r
Assigned(r) ==
    /\ cells' = r.st.cells
    /\ arena' = r.st.arena
    /\ pc' = IF r.ok THEN pc ELSE "panicked"
    /\ err' = IF r.ok THEN err ELSE "restrict"

\* a client calls Variable::assign
Assign ==
    /\ pc = "build"
    /\ \E v \in Registered, x \in AssignValues :
          /\ ~resolved(store, v)
          /\ \E r \in {assign(store, v, x)} : Assigned(r)
    /\ UNCHANGED <<layout, variables, constraints, age, steps, used, added,
                   given, root, viewport, areas, before, editor,
                   set>>

\* a client calls self.equal(a, b)
Equal_of(a, b) ==
    /\ pc = "build"
    /\ Len(constraints) < MaxCons
    /\ Built(equal(system, a, b))

\* a client calls System::equal
Equal == \E a \in Registered, b \in Registered : Equal_of(a, b)

\* a client calls System::distance
Distance ==
    /\ pc = "build"
    /\ Len(constraints) < MaxCons
    /\ \E a \in Registered, b \in Registered, x \in Distances :
          Built(distance(system, a, b, x))

\* a client calls System::order
Order ==
    /\ pc = "build"
    /\ Len(constraints) < MaxCons
    /\ \E a \in Registered, b \in Registered : Built(order(system, a, b))

\* the entry of System::solve
Solve ==
    /\ pc = "build"
    /\ pc' = "solve"
    /\ age' = 0
    /\ steps' = 0
    /\ used' = {}
    /\ added' = constraints
    /\ given' = store
    /\ UNCHANGED <<err, layout, cells, arena, variables, constraints, root,
                   viewport, areas, before, editor,
                   set>>

\* compute(): the root assigned with result r, then the entry of solve
Rooted(sys, r) ==
    /\ cells' = r.st.cells
    /\ arena' = r.st.arena
    /\ variables' = sys.variables
    /\ constraints' = sys.constraints
    /\ areas' = sys.areas
    /\ added' = sys.constraints
    /\ given' = r.st
    /\ pc' = IF r.ok THEN "solve" ELSE "panicked"
    /\ err' = IF r.ok THEN err ELSE "restrict"

\* compute(): root.collect(&mut cx) has run with result c
Collected(c, w, h) ==
    \E r \in {assign_root(Store(c.sys.cells, c.sys.arena), c.bb, w, h)} :
        Rooted(c.sys, r)

\* the contents of the persistent cells before a pass: <<>> for the widgets
\* as constructed, or one value left in every cell
HeldBefore ==
    {<<>>} \cup {[k \in 1..MaxHeld |-> x] : x \in {V(5), neg(infinity), NaN}}

\* a client pins the edge v at x from the root edge a, unless v is one of
\* the root edges compute assigns
pin(sys, a, v, x, rbb) ==
    IF v \in {rbb.x1, rbb.y1, rbb.x2, rbb.y2} THEN sys
    ELSE IF eq(x, zero) THEN equal(sys, a, v)
    ELSE distance(sys, a, v, x)

\* the four edges of the box bx pinned to the rectangle r
pin_box(sys, rbb, bx, r) ==
    pin(pin(pin(pin(sys, rbb.x1, bx.x1, r.x1, rbb),
                rbb.y1, bx.y1, r.y1, rbb),
            rbb.x1, bx.x2, r.x2, rbb),
        rbb.y1, bx.y2, r.y2, rbb)

RECURSIVE pin_boxes(_, _, _, _)
\* every box from the k-th on pinned to its rectangle in rects
pin_boxes(sys, rbb, rects, k) ==
    IF k > Len(rects) THEN sys
    ELSE pin_boxes(pin_box(sys, rbb, sys.areas[k], rects[k]), rbb, rects,
                   k + 1)

\* compute(root, fonts, w, h) up to the entry of solve, on the tree t whose
\* persistent cells hold s, the boxes being pinned to rects after collect
Pass(t, w, h, s, rects) ==
    /\ \E c \in {collect([System_new EXCEPT !.held = s], t)} :
          \E d \in {[sys |-> pin_boxes(c.sys, c.bb, rects, 1), bb |-> c.bb]} :
              Collected(d, w, h)
    /\ root' = t
    /\ viewport' = <<w, h>>
    /\ age' = 0
    /\ steps' = 0
    /\ used' = {}
    /\ UNCHANGED layout

\* the first compute() on a widget tree
Compute ==
    /\ pc = "build"
    /\ layout.kind = "structs"
    /\ variables = <<>>
    /\ \E t \in Roots, w \in Widths, h \in Heights, s \in HeldBefore :
          Pass(t, w, h, s, <<>>)
    /\ UNCHANGED <<before, editor, set>>

\* the k-th box read back with x and y taken for each other
bb_transposed(k) ==
    BB(cells[areas[k].y1.min], cells[areas[k].x1.min],
       cells[areas[k].y2.min], cells[areas[k].x2.min])

\* Layout::bb of the k-th box: the four persistent cells read back
bb(k) ==
    BB(cells[areas[k].x1.min], cells[areas[k].y1.min],
       cells[areas[k].x2.min], cells[areas[k].y2.min])

\* the rectangles of all boxes, in area() order
Rects == [k \in 1..Len(areas) |-> bb(k)]

\* FlowLayout::bb for (A, B) without the swap for Up and Left
flow_bb_unswapped(dir, a, b) == BB(a.x1, a.y1, b.x2, b.y2)

\* FlowLayout::bb for (A, B), a and b being self.0.bb() and self.1.bb(dir)
flow_bb(dir, a, b) ==
    IF dir \in {"up", "left"} THEN BB(b.x1, b.y1, a.x2, a.y2)
    ELSE BB(a.x1, a.y1, b.x2, b.y2)

RECURSIVE Layout_bb(_, _)
\* Layout::bb of the tree t whose first box is the k-th
Layout_bb(t, k) ==
    IF t.kind = "flow"
    THEN flow_bb(t.dir, Layout_bb(t.a, k), Layout_bb(t.b, k + boxes(t.a)))
    ELSE bb(k)

\* compute() once more on the same tree and viewport, after a pass that
\* returned: the cells hold what that pass left, or what was put there since
Recompute ==
    /\ pc = "returned"
    /\ root # NoRoot
    /\ before.rects = <<>>
    /\ \E s \in {cells} \cup HeldBefore :
          Pass(root, viewport[1], viewport[2], s, <<>>)
    /\ before' = [rects |-> Rects, pinned |-> FALSE]
    /\ UNCHANGED <<editor, set>>

\* compute() once more on the same tree and viewport, every box edge
\* pinned to the value read back through bb()
Repin ==
    /\ pc = "returned"
    /\ root # NoRoot
    /\ before.rects = <<>>
    /\ Pass(root, viewport[1], viewport[2], cells, Rects)
    /\ before' = [rects |-> Rects, pinned |-> TRUE]
    /\ UNCHANGED <<editor, set>>

\* the state after one iteration of 'simplify with outcome o
Simplified(o) ==
    /\ pc' = IF o.status = "continue" THEN "solve"
             ELSE IF o.status = "returned" THEN "returned" ELSE "panicked"
    /\ err' = o.err
    /\ cells' = o.st.cells
    /\ arena' = o.st.arena
    /\ constraints' = o.constraints
    /\ age' = o.age

\* one iteration of the 'simplify loop
Simplify ==
    /\ pc = "solve"
    /\ Len(constraints) > age
    /\ steps < MaxSteps
    /\ \E o \in {simplify(store, constraints, variables, age)} : Simplified(o)
    /\ steps' = steps + 1
    /\ UNCHANGED <<layout, variables, used, added, given, root, viewport,
                   areas, before, editor,
                   set>>

\* Strategy B falling through to Strategy C whether or not it assigned
Chained_through(r) ==
    /\ pc' = IF r.err # "" THEN "panicked" ELSE "bisect"
    /\ err' = r.err
    /\ cells' = r.st.cells
    /\ arena' = r.st.arena
    /\ age' = IF r.assigned THEN 0 ELSE age
    /\ used' = IF r.assigned THEN used \cup {"B"} ELSE used
    /\ steps' = steps + 1

\* the state after Strategy B with result r, up to "if age == 0 { continue; }"
Chained_to(r) ==
    /\ pc' = IF r.err # "" THEN "panicked"
             ELSE IF r.assigned \/ age = 0 THEN "solve" ELSE "bisect"
    /\ err' = r.err
    /\ cells' = r.st.cells
    /\ arena' = r.st.arena
    /\ age' = IF r.assigned THEN 0 ELSE age
    /\ used' = IF r.assigned THEN used \cup {"B"} ELSE used
    /\ steps' = IF r.err = "" /\ ~r.assigned /\ age = 0 THEN steps
                ELSE steps + 1

\* Strategy B, entered when the 'simplify loop has gone stale
Chain ==
    /\ pc = "solve"
    /\ Len(constraints) <= age
    /\ steps < MaxSteps
    /\ \E r \in {chain(store, constraints)} : Chained_to(r)
    /\ UNCHANGED <<layout, variables, constraints, added, given, root,
                   viewport, areas, before, editor,
                   set>>

\* the state after the assign of Strategy C with result r
Picked(r) ==
    /\ cells' = r.st.cells
    /\ arena' = r.st.arena
    /\ pc' = IF r.ok THEN "solve" ELSE "panicked"
    /\ err' = IF r.ok THEN err ELSE "restrict"

\* the state after Strategy C has picked variables[k], 0 for none
Bisected(k) ==
    IF k = 0
    THEN /\ pc' = "panicked"
         /\ err' = "Could not solve"
         /\ UNCHANGED <<cells, arena, age, used>>
    ELSE /\ \E r \in {bisect(store, variables[k])} : Picked(r)
         /\ age' = 0
         /\ used' = used \cup {"C"}

\* Strategy C, and the panic when it finds nothing
Bisect ==
    /\ pc = "bisect"
    /\ \E k \in {pick_ranged(store, variables)} : Bisected(k)
    /\ steps' = steps + 1
    /\ UNCHANGED <<layout, variables, constraints, added, given, root,
                   viewport, areas, before, editor,
                   set>>

Next ==
    \/ Var
    \/ Assign
    \/ Equal
    \/ Distance
    \/ Order
    \/ Solve
    \/ Compute
    \/ Recompute
    \/ Repin
    \/ Simplify
    \/ Chain
    \/ Bisect

Spec == Init /\ [][Next]_vars


(***************************************************************************)
(* System::area by itself: a System built from var, order and area calls,  *)
(* the persistent cells of each box holding anything before the call.      *)
(***************************************************************************)
\* self.area(bb, name), the four cells of bb holding s
Area_on(s) ==
    /\ pc = "build"
    /\ Len(areas) < MaxAreas
    /\ Built(area([system EXCEPT !.held = [k \in 1..Len(cells) |-> zero] \o s])
                .sys)

SpecArea ==
    Init /\ [][Var \/ Order \/ \E s \in HeldBefore : Area_on(s)]_vars


(***************************************************************************)
(* Variable::restrict by itself: one Variable with any well-formed bounds, *)
(* restricted again and again by any well-formed Bounds.                   *)
(***************************************************************************)
\* the well-formed Bounds tried: min <= max over seven end points
Intervals ==
    {b \in {Bounds(lo, hi) :
                lo \in {neg(infinity), V(-3), zero, V(2), V(4), V(33554432),
                        infinity},
                hi \in {neg(infinity), V(-3), zero, V(2), V(4), V(33554432),
                        infinity}} :
        le(b.min, b.max)}

InitRestrict ==
    /\ pc = "build"
    /\ err = ""
    /\ layout \in CellLayouts(1)
    /\ \E b \in Intervals : cells = <<b.min>> /\ arena = <<b.max>>
    /\ variables = <<[min |-> 1, max |-> 1]>>
    /\ constraints = <<>>
    /\ age = 0
    /\ steps = 0
    /\ used = {}
    /\ added = <<>>
    /\ given = Store(<<>>, <<>>)
    /\ root = NoRoot
    /\ viewport = <<>>
    /\ areas = <<>>
    /\ before = [rects |-> <<>>, pinned |-> FALSE]
    /\ editor = NoEditor
    /\ set = NoSet

\* self.restrict(o) on the Variable, given being the cells it found
Restrict_by(o) ==
    /\ pc = "build"
    /\ \E r \in {Variable_restrict(store, variables[1], o)} : Assigned(r)
    /\ given' = store
    /\ UNCHANGED <<layout, variables, constraints, age, steps, used, added,
                   root, viewport, areas, before, editor,
                   set>>

SpecRestrict == InitRestrict /\ [][\E o \in Intervals : Restrict_by(o)]_vars


(***************************************************************************)
(* Strategy A by itself, from the entry of solve() on a System of four     *)
(* Variables a, b, c, d built by c.assign(x), d.assign(y), order(a, c),    *)
(* order(d, b) and one more order or distance between a and b.             *)
(***************************************************************************)
\* the entry of solve(): x and y are the values assigned to c and d
InitSound ==
    /\ pc = "solve"
    /\ err = ""
    /\ layout \in CellLayouts(4)
    /\ variables = var(var(var(var(System_new)))).variables
    /\ \E x \in {V(-2), zero, V(33554432)}, y \in {V(-2), zero, V(33554432)} :
          /\ cells = <<neg(infinity), neg(infinity), x, y>>
          /\ arena = <<infinity, infinity, x, y>>
    /\ \E c \in {order_constraint(variables[1], variables[2]),
                 order_constraint(variables[2], variables[1]),
                 distance_constraint(variables[1], variables[2], V(2)),
                 distance_constraint(variables[2], variables[1], zero)} :
          constraints = <<order_constraint(variables[1], variables[3]),
                          order_constraint(variables[4], variables[2]), c>>
    /\ age = 0
    /\ steps = 0
    /\ used = {}
    /\ added = constraints
    /\ given = store
    /\ root = NoRoot
    /\ viewport = <<>>
    /\ areas = <<>>
    /\ before = [rects |-> <<>>, pinned |-> FALSE]
    /\ editor = NoEditor
    /\ set = NoSet

SpecSound == InitSound /\ [][Simplify]_vars


(***************************************************************************)
(* tab::Set by itself: add, remove and the MouseDown on the tab strip, in  *)
(* any sequence.  Positions count from 0 as in the code.                   *)
(***************************************************************************)
\* the most tabs a Set is given
MaxTabs == 4

\* the tabs a client adds
Tabs == {"a", "b"}

\* the variables of the layout solver, which a Set and an Editor leave alone
solver ==
    <<pc, err, layout, cells, arena, variables, constraints, age, steps, used,
      added, given, root, viewport, areas, before>>

\* Set::new, with what the last call did: the position add inserted at, and
\* "None" or "Some" for what remove returned
Set_new ==
    [tabs |-> <<>>, current |-> 0, at |-> 0, returned |-> "",
     panicked |-> FALSE]

\* Set::remove that leaves current where it is
remove_kept(self) ==
    IF self.current >= Len(self.tabs) THEN [self EXCEPT !.returned = "None"]
    ELSE [self EXCEPT
             !.tabs = SubSeq(self.tabs, 1, self.current)
                      \o SubSeq(self.tabs, self.current + 2, Len(self.tabs)),
             !.returned = "Some"]

\* Set::remove
remove(self) ==
    IF self.current >= Len(self.tabs) THEN [self EXCEPT !.returned = "None"]
    ELSE [self EXCEPT
             !.tabs = SubSeq(self.tabs, 1, self.current)
                      \o SubSeq(self.tabs, self.current + 2, Len(self.tabs)),
             !.current = IF self.current > 0 THEN self.current - 1
                         ELSE self.current,
             !.returned = "Some"]

\* self.tabs.insert(c, x); self.current.set(c): Vec::insert panics when c
\* is greater than the length
insert(self, c, x) ==
    IF c > Len(self.tabs)
    THEN [self EXCEPT !.at = c, !.returned = "", !.panicked = TRUE]
    ELSE [self EXCEPT
             !.tabs = SubSeq(self.tabs, 1, c) \o <<x>>
                      \o SubSeq(self.tabs, c + 1, Len(self.tabs)),
             !.current = c, !.at = c, !.returned = ""]

\* Set::add
add_tab(self, x) ==
    insert(self,
           IF self.current + 1 >= Len(self.tabs) THEN self.current
           ELSE self.current + 1,
           x)

\* Dispatch<MouseDown> for Set: hit says where the position is ("strip" for
\* inside the Set and outside the current tab), k is
\* ((ev.x - bb.x1) / TAB_WIDTH) as usize
mouse_down(self, hit, k) ==
    IF self.current < Len(self.tabs) /\ hit = "strip" /\ k < Len(self.tabs)
    THEN [self EXCEPT !.current = k]
    ELSE self

InitSet ==
    /\ pc = "build"
    /\ err = ""
    /\ layout \in CellLayouts(0)
    /\ cells = <<>>
    /\ arena = <<>>
    /\ variables = <<>>
    /\ constraints = <<>>
    /\ age = 0
    /\ steps = 0
    /\ used = {}
    /\ added = <<>>
    /\ given = Store(<<>>, <<>>)
    /\ root = NoRoot
    /\ viewport = <<>>
    /\ areas = <<>>
    /\ before = [rects |-> <<>>, pinned |-> FALSE]
    /\ editor = NoEditor
    /\ set = Set_new

\* a client calls Set::add
Add ==
    /\ ~set.panicked
    /\ Len(set.tabs) < MaxTabs
    /\ \E x \in Tabs : set' = add_tab(set, x)
    /\ UNCHANGED <<solver, editor>>

\* a client calls Set::remove
Remove ==
    /\ ~set.panicked
    /\ set' = remove(set)
    /\ UNCHANGED <<solver, editor>>

\* a MouseDown is dispatched to the Set
MouseDown ==
    /\ ~set.panicked
    /\ \E hit \in {"strip", "tab", "outside"}, k \in 0..MaxTabs :
          set' = mouse_down(set, hit, k)
    /\ UNCHANGED <<solver, editor>>

SpecSet == InitSet /\ [][Add \/ Remove \/ MouseDown]_vars


(***************************************************************************)
(* The compiler client: ide::rustc::Rustc with its compiler thread and the *)
(* two channels, and the Editor that owns a client rustc and, after an     *)
(* edit, a second one new_rustc.                                           *)
(***************************************************************************)
\* the most edits an Editor is given
MaxEdits == 1

\* the most diagnostics a compiler thread emits
MaxDiagnostics == 1

\* the most requests a client has sent and not seen answered
MaxRequests == 2

\* the offsets the Editor asks the types for
Offsets == {1, 2}

\* enum State: Compiling, Aborted, Waiting (offset 0) and
\* TypesAtOffset(offset)
State(kind, offset) == [kind |-> kind, offset |-> offset]

\* enum Res: Done, Aborted, Diagnostic (n = 1 for an error, 0 otherwise) and
\* TypesAtOffset(n, ..)
Res(kind, n) == [kind |-> kind, n |-> n]

\* new_rustc: None
None == [kind |-> "None"]

\* Rustc::start: the client, its thread and both channels; failed names the
\* assertion of update() that failed, "" while none
Rustc_start ==
    [state |-> State("Compiling", 0), errors |-> 0, res |-> <<>>,
     req |-> <<>>, thread |-> "compiling", emitted |-> 0, failed |-> ""]

\* one arm of the match in Rustc::update
receive(self, res) ==
    IF res.kind = "Done"
    THEN IF self.state # State("Compiling", 0)
         THEN [self EXCEPT !.failed = "Done"]
         ELSE [self EXCEPT !.state = State("Waiting", 0)]
    ELSE IF res.kind = "Aborted"
    THEN IF self.errors = 0 THEN [self EXCEPT !.failed = "Aborted"]
         ELSE [self EXCEPT !.state = State("Aborted", 0)]
    ELSE IF res.kind = "Diagnostic"
    THEN [self EXCEPT !.errors = self.errors + res.n]
    ELSE IF self.state = State("TypesAtOffset", res.n)
    THEN [self EXCEPT !.state = State("Waiting", 0)]
    ELSE self

RECURSIVE update(_)
\* Rustc::update: while let Ok(res) = self.res_rx.try_recv()
update(self) ==
    IF self.failed # "" \/ self.res = <<>> THEN self
    ELSE update(receive([self EXCEPT !.res = Tail(self.res)],
                        Head(self.res)))

\* Rustc::types_at_offset: the send is lost when the thread has gone
types_at_offset(self, offset) ==
    [self EXCEPT !.state = State("TypesAtOffset", offset),
                 !.req = IF self.thread = "gone" THEN self.req
                         ELSE Append(self.req, offset)]

\* Dispatch<Update> for Editor, the clients: new_rustc.update() and the
\* swap when it is ready, rustc.update() otherwise; n is new_rustc updated
updated(ed, n) ==
    IF ed.new_rustc = None THEN [ed EXCEPT !.rustc = update(ed.rustc)]
    ELSE IF n.failed # "" THEN [ed EXCEPT !.new_rustc = n]
    ELSE IF n.state = State("Waiting", 0)
    THEN [ed EXCEPT !.rustc = n, !.new_rustc = None]
    ELSE [ed EXCEPT !.new_rustc = n, !.rustc = update(ed.rustc)]

\* an assertion of update() has failed in the Editor ed
failed(ed) ==
    ed.rustc.failed # "" \/ (ed.new_rustc # None /\ ed.new_rustc.failed # "")

\* Dispatch<Update> for Editor, the hover: "reached" when the hover passes
\* HOVER_DELAY in this tick over a clean row, "none" below HOVER_DELAY,
\* "shown" otherwise
hovered(ed, hover, offset) ==
    IF failed(ed) THEN ed
    ELSE IF hover = "reached"
    THEN [ed EXCEPT !.rustc = types_at_offset(ed.rustc, offset)]
    ELSE IF hover = "none" /\ ed.rustc.state.kind = "TypesAtOffset"
    THEN [ed EXCEPT !.rustc.state = State("Waiting", 0)]
    ELSE ed

\* Editor::open
InitEditor ==
    /\ pc = "build"
    /\ err = ""
    /\ layout \in CellLayouts(0)
    /\ cells = <<>>
    /\ arena = <<>>
    /\ variables = <<>>
    /\ constraints = <<>>
    /\ age = 0
    /\ steps = 0
    /\ used = {}
    /\ added = <<>>
    /\ given = Store(<<>>, <<>>)
    /\ root = NoRoot
    /\ viewport = <<>>
    /\ areas = <<>>
    /\ before = [rects |-> <<>>, pinned |-> FALSE]
    /\ editor = [rustc |-> Rustc_start, new_rustc |-> None, edits |-> 0]
    /\ set = NoSet

\* the clients of the Editor that exist
Clients == {w \in {"rustc", "new_rustc"} : editor[w] # None}

\* the compiler thread of client w sends r, its n-th Diagnostic or its last
\* message, and goes on as t with the requests q left to answer
Sent(w, r, n, t, q) ==
    /\ ~failed(editor)
    /\ editor' = [editor EXCEPT ![w].res = Append(editor[w].res, r),
                                ![w].emitted = n,
                                ![w].thread = t,
                                ![w].req = q]
    /\ UNCHANGED <<solver, set>>

\* ErrorLogger::emit in a compiler thread
ThreadDiagnostic ==
    \E w \in Clients, n \in {0, 1} :
        /\ editor[w].thread = "compiling"
        /\ editor[w].emitted < MaxDiagnostics
        /\ Sent(w, Res("Diagnostic", n), editor[w].emitted + 1, "compiling",
                editor[w].req)

\* rustc_thread: tx.send(Res::Done) after check_crate
ThreadDone ==
    \E w \in Clients :
        /\ editor[w].thread = "compiling"
        /\ Sent(w, Res("Done", 0), editor[w].emitted, "serving",
                editor[w].req)

\* Rustc::start: the thread has panicked, res_tx2.send(Res::Aborted); after
\* Done it panics in the answer to a request
ThreadAborted ==
    \E w \in Clients :
        \/ /\ editor[w].thread = "compiling"
           /\ Sent(w, Res("Aborted", 0), editor[w].emitted, "gone",
                   editor[w].req)
        \/ /\ editor[w].thread = "serving"
           /\ editor[w].req # <<>>
           /\ Sent(w, Res("Aborted", 0), editor[w].emitted, "gone",
                   Tail(editor[w].req))

\* rustc_thread returns before Done, by a try!, and sends nothing
ThreadReturned ==
    \E w \in Clients :
        /\ editor[w].thread = "compiling"
        /\ ~failed(editor)
        /\ editor' = [editor EXCEPT ![w].thread = "gone"]
        /\ UNCHANGED <<solver, set>>

\* rustc_thread: a Req::TypesAtOffset is answered
ThreadTypesAtOffset ==
    \E w \in Clients :
        /\ editor[w].thread = "serving"
        /\ editor[w].req # <<>>
        /\ Sent(w, Res("TypesAtOffset", Head(editor[w].req)),
                editor[w].emitted, "serving", Tail(editor[w].req))

\* Editor::update_hl after an edit: a new client is started
Edit ==
    /\ ~failed(editor)
    /\ editor.edits < MaxEdits
    /\ editor' = [editor EXCEPT !.new_rustc = Rustc_start,
                                !.edits = editor.edits + 1]
    /\ UNCHANGED <<solver, set>>

\* Dispatch<Update> for Editor
Update ==
    /\ ~failed(editor)
    /\ \E hover \in {"none", "reached", "shown"}, offset \in Offsets :
          \E u \in {updated(editor,
                            IF editor.new_rustc = None THEN None
                            ELSE update(editor.new_rustc))} :
              /\ hover = "reached" => Len(u.rustc.req) < MaxRequests
              /\ editor' = hovered(u, hover, offset)
    /\ UNCHANGED <<solver, set>>

SpecEditor ==
    InitEditor /\ [][ThreadDiagnostic \/ ThreadDone \/ ThreadAborted
                     \/ ThreadReturned \/ ThreadTypesAtOffset \/ Edit
                     \/ Update]_vars



(***************************************************************************)
(* What the input of a solve() admits.  Every Constraint the clients queue *)
(* bounds a difference t1 - t2 of two Variables, and an assigned Variable  *)
(* has its value: the input has a solution exactly when the graph of these *)
(* differences has no negative cycle.  Node 0 is the origin, node k the    *)
(* k-th Variable; entry (i, j) of a matrix bounds x_j - x_i from above.    *)
(***************************************************************************)
\* the position of entry (i, j) in a matrix over the nodes 0..n
at(n, i, j) == i * (n + 1) + j + 1

\* the sum of two upper bounds, not rounded
plus(x, y) ==
    IF x[2] = 0 THEN x
    ELSE IF y[2] = 0 THEN y
    ELSE Frac(Over(x, Common(x, y)) + Over(y, Common(x, y)), Common(x, y))

\* the smaller of two upper bounds
tighter(x, y) == IF lt(y, x) THEN y ELSE x

\* what the Constraint c says of x_j - x_i
said(c, i, j) ==
    tighter(IF c.terms[2].var.min = i /\ c.terms[1].var.min = j
            THEN c.bounds.max ELSE infinity,
            IF c.terms[1].var.min = i /\ c.terms[2].var.min = j
            THEN neg(c.bounds.min) ELSE infinity)

\* what the values that st holds resolved say of x_j - x_i
known(st, i, j) ==
    IF i = 0 /\ j > 0 /\ eq(st.cells[j], st.arena[j]) THEN st.cells[j]
    ELSE IF j = 0 /\ i > 0 /\ eq(st.cells[i], st.arena[i])
    THEN neg(st.cells[i])
    ELSE infinity

\* the tightest of the upper bounds S
tightest(S) ==
    CHOOSE x \in S : ~IsNaN(x) /\ \A y \in S : ~lt(y, x)

\* what the Constraints cs and the values resolved in st say of x_j - x_i
bound(cs, st, i, j) ==
    tightest({IF i = j THEN zero ELSE infinity, known(st, i, j)}
             \cup {said(cs[k], i, j) : k \in 1..Len(cs)})

\* the matrix of the Constraints cs and of the values resolved in st
matrix(n, cs, st) ==
    [p \in 1..((n + 1) * (n + 1)) |->
        bound(cs, st, (p - 1) \div (n + 1), (p - 1) % (n + 1))]
    \o <<>>

\* one round of shortest paths: the paths through node k
through(n, m, k) ==
    [p \in 1..((n + 1) * (n + 1)) |->
        tighter(m[p], plus(m[at(n, (p - 1) \div (n + 1), k)],
                           m[at(n, k, (p - 1) % (n + 1))]))]
    \o <<>>

\* no node lies on a negative cycle of m
acyclic(n, m) == \A i \in 0..n : ~lt(m[at(n, i, i)], zero)

\* the shortest paths of m through the nodes k..n, as far as no negative
\* cycle has shown
RECURSIVE shortest(_, _, _)
shortest(n, m, k) ==
    IF k > n \/ ~acyclic(n, m) THEN m
    ELSE shortest(n, through(n, m, k), k + 1)

\* the Constraints cs and the values resolved in st have a solution over
\* the Variables 1..n
admits(n, cs, st) == acyclic(n, shortest(n, matrix(n, cs, st), 0))

\* the input of this solve() has a solution
Satisfiable == admits(Len(variables), added, given)

\* solve() is running
Solving == pc \in {"solve", "bisect"}

\* the k-th Constraint of the input asks for a distance
IsDistance(c) == eq(c.bounds.min, c.bounds.max)

\* the k-th Constraint of the input asks for an order
IsOrder(c) == c.bounds = Bounds(neg(infinity), zero)

\* the Variables of Constraint c are resolved
Settled(c) ==
    resolved(store, c.terms[1].var) /\ resolved(store, c.terms[2].var)

\* the resolved difference t1 - t2 of the two Variables of Constraint c
Difference(c) ==
    sub(value(store, c.terms[1].var), value(store, c.terms[2].var))

\* every Variable registered with the System is resolved
AllResolved == \A k \in 1..Len(variables) : resolved(store, variables[k])

\* solve() is in an iteration of its outer loop that leaves everything as
\* it found it: nothing to simplify, no chain for Strategy B, and age == 0,
\* so that `continue` begins the same iteration again
Spins ==
    /\ pc = "solve"
    /\ Len(constraints) <= age
    /\ age = 0
    /\ \E r \in {chain(store, constraints)} : r.err = "" /\ ~r.assigned

\* solve() is running, has steps left to take, and its next one changes
\* the state
Progresses == Solving => (steps < MaxSteps /\ ~Spins)

(* C1: distance law.  When solve() has returned, every distance(a, b, x)   *)
(* the System was given, equal included with x = 0, has both Variables     *)
(* resolved with b - a = x exactly.                                        *)
DistanceLaw ==
    pc = "returned" =>
        \A k \in 1..Len(added) :
            IsDistance(added[k]) =>
                Settled(added[k])
                /\ eq(Difference(added[k]), added[k].bounds.min)

(* C2: order law.  When solve() has returned, every order(a, b) the System *)
(* was given, those of area() included, has a <= b in the resolved values. *)
OrderLaw ==
    pc = "returned" =>
        \A k \in 1..Len(added) :
            IsOrder(added[k]) =>
                Settled(added[k])
                /\ le(value(store, added[k].terms[1].var),
                      value(store, added[k].terms[2].var))

\* solve() has returned from a System where Strategy C picked a midpoint
\* and an order holds strictly whose greater side was not assigned
OrderLawWitness ==
    /\ pc = "returned"
    /\ "C" \in used
    /\ \E k \in 1..Len(added) :
          /\ IsOrder(added[k])
          /\ ~resolved(given, added[k].terms[2].var)
          /\ lt(value(store, added[k].terms[1].var),
                value(store, added[k].terms[2].var))

(* C3: solve() returns only with the queue empty and every registered      *)
(* Variable resolved; "Unresolved ranges" is the panic of an empty queue   *)
(* with an unresolved Variable; and once solve() has taken a step it never *)
(* goes on with an empty queue, nor gives up with "Could not solve" on one.*)
ReturnsOnlyResolved ==
    /\ pc = "returned" => constraints = <<>> /\ AllResolved
    /\ err = "Unresolved ranges" =>
           pc = "panicked" /\ constraints = <<>> /\ ~AllResolved
    /\ (Solving /\ steps > 0) => constraints # <<>>
    /\ err = "Could not solve" => constraints # <<>>

\* the queue has emptied with some Variable unresolved
UnresolvedRangesWitness ==
    /\ pc = "panicked"
    /\ err = "Unresolved ranges"
    /\ added # <<>>
    /\ \E k \in 1..Len(variables) : ~resolved(store, variables[k])

(* C4: a fatal contradiction is raised only for unsatisfiable input: when  *)
(* a restrict() in the solve() of a compute() has met disjoint intervals,  *)
(* the Constraints of the tree and the assignments of the root have no     *)
(* solution.                                                               *)
ContradictionOnlyIfUnsatisfiable ==
    (root # NoRoot /\ pc = "panicked" /\ err = "restrict") => ~Satisfiable

(* C5: a layout pass always finishes: solve() is never in an iteration     *)
(* that repeats itself without end, whatever System it is given, one with  *)
(* no Constraints included.                                                *)
SolveFinishes == ~Spins

\* the System holds two distances of different lengths over the same pair
Contradictory ==
    \E i \in 1..Len(added), j \in 1..Len(added) :
        /\ IsDistance(added[i])
        /\ IsDistance(added[j])
        /\ Terms_eq(added[i].terms, added[j].terms)
        /\ ~eq(added[i].bounds.min, added[j].bounds.min)

(* C6: contradictory distances are rejected: a System given distance(a, b, *)
(* x) and distance(a, b, y) with x # y never returns from solve(), and     *)
(* solve() goes on, within the steps explored, until it fails fatally.     *)
ContradictoryDistancesRejected ==
    Contradictory =>
        /\ pc # "returned"
        /\ Progresses

\* Constraint c has a term in Variable v
Mentions(c, v) == \E t \in 1..Len(c.terms) : Variable_eq(c.terms[t].var, v)

\* solve() was entered with a Variable never assigned and in no Constraint
Underdetermined ==
    /\ pc # "build"
    /\ \E k \in 1..Len(variables) :
          /\ ~resolved(given, variables[k])
          /\ \A c \in 1..Len(added) : ~Mentions(added[c], variables[k])

(* C7: underdetermined systems fail fatally: with a registered Variable    *)
(* that is never assigned and occurs in no Constraint, solve() does not    *)
(* return, and it does not run without end.                                *)
UnderdeterminedFails ==
    Underdetermined =>
        /\ pc # "returned"
        /\ ~Spins

\* compute() has returned
Computed == root # NoRoot /\ pc = "returned"

(* C8: box validity: after compute() has returned, every box area() made   *)
(* has x1 <= x2 and y1 <= y2 in its persistent cells.                      *)
BoxValidity ==
    Computed =>
        \A k \in 1..Len(areas) :
            /\ le(cells[areas[k].x1.min], cells[areas[k].x2.min])
            /\ le(cells[areas[k].y1.min], cells[areas[k].y2.min])

\* compute() has returned with a box, placed by the solver, that has a
\* width and a height
BoxValidityWitness ==
    /\ Computed
    /\ used # {}
    /\ \E k \in 1..Len(areas) :
          /\ ~resolved(given, areas[k].x1) \/ ~resolved(given, areas[k].x2)
          /\ lt(cells[areas[k].x1.min], cells[areas[k].x2.min])
          /\ lt(cells[areas[k].y1.min], cells[areas[k].y2.min])

\* flow![down: a, flow![right: b, c]] of three leaves
Tiled == Flow("down", Leaf, Flow("right", Leaf, Leaf))

\* the persistent cell of edge e of the k-th box
Edge(k, e) == cells[areas[k][e].min]

(* C9: for flow![down: A, flow![right: B, C]] of leaves and a positive     *)
(* viewport, compute() does not fail, goes on until it returns, and the    *)
(* boxes then tile the viewport.                                           *)
FlowTiles ==
    (root = Tiled /\ lt(zero, viewport[1]) /\ lt(zero, viewport[2])) =>
        /\ pc # "panicked"
        /\ Progresses
        /\ pc = "returned" =>
              /\ eq(Edge(1, "x1"), zero) /\ eq(Edge(2, "x1"), zero)
              /\ eq(Edge(1, "x2"), viewport[1])
              /\ eq(Edge(3, "x2"), viewport[1])
              /\ eq(Edge(1, "y1"), zero)
              /\ eq(Edge(2, "x2"), Edge(3, "x1"))
              /\ eq(Edge(2, "y1"), Edge(1, "y2"))
              /\ eq(Edge(3, "y1"), Edge(1, "y2"))
              /\ eq(Edge(2, "y2"), viewport[2])
              /\ eq(Edge(3, "y2"), viewport[2])

\* compute() has returned on the three leaves with A above a row of B and C
FlowTilesWitness ==
    /\ root = Tiled
    /\ pc = "returned"
    /\ lt(zero, Edge(1, "y2")) /\ lt(Edge(1, "y2"), viewport[2])
    /\ lt(zero, Edge(2, "x2")) /\ lt(Edge(2, "x2"), viewport[1])

(* C10: for a single leaf as root and a viewport with w >= 0 and h >= 0,   *)
(* compute() does not fail, goes on until it returns, and the box of the   *)
(* leaf is then exactly (0, 0, w, h).                                      *)
LeafFillsViewport ==
    (root = Leaf /\ le(zero, viewport[1]) /\ le(zero, viewport[2])) =>
        /\ pc # "panicked"
        /\ Progresses
        /\ pc = "returned" =>
              /\ Edge(1, "x1") = zero
              /\ Edge(1, "y1") = zero
              /\ Edge(1, "x2") = viewport[1]
              /\ Edge(1, "y2") = viewport[2]

\* compute() has returned on a single leaf with a viewport wider than high
LeafFillsViewportWitness ==
    /\ root = Leaf
    /\ pc = "returned"
    /\ lt(viewport[2], viewport[1])
    /\ lt(zero, viewport[2])

\* Constraint c asks for the distance 0
IsEquality(c) == IsDistance(c) /\ eq(c.bounds.min, zero)

\* the k-th Constraint of the input is an equal(a, b) with a assigned before
\* solve() and b neither assigned nor in any other Constraint
Propagating(k) ==
    /\ root = NoRoot
    /\ IsEquality(added[k])
    /\ resolved(given, added[k].terms[1].var)
    /\ ~resolved(given, added[k].terms[2].var)
    /\ \A j \in 1..Len(added) :
          j # k => ~Mentions(added[j], added[k].terms[2].var)

(* C11: equality propagation.  With a assigned v before solve() and b      *)
(* bound by nothing but equal(a, b), the dequeue of that Constraint, the   *)
(* k-th step of solve(), resolves b to exactly v, before Strategy B or C   *)
(* has assigned anything.                                                  *)
EqualityPropagates ==
    \A k \in 1..Len(added) :
        (Propagating(k) /\ steps >= k) =>
            /\ resolved(store, added[k].terms[2].var)
            /\ eq(value(store, added[k].terms[2].var),
                  value(given, added[k].terms[1].var))
            /\ steps = k => used = {}

\* solve() has returned after propagating a value other than 0 through an
\* equal(a, b)
EqualityPropagatesWitness ==
    /\ pc = "returned"
    /\ \E k \in 1..Len(added) :
          /\ Propagating(k)
          /\ steps >= k
          /\ ~eq(value(given, added[k].terms[1].var), zero)

(* C12: determinism across passes.  A second compute() on the same widget  *)
(* tree and viewport neither fails nor returns other rectangles than the   *)
(* first, whatever the persistent cells held before either call.           *)
DeterministicPasses ==
    (before.rects # <<>> /\ ~before.pinned
         /\ pc \in {"returned", "panicked"}) =>
        (pc = "returned" /\ Rects = before.rects)

\* a second pass over a flow has returned, with edges the solver placed
DeterministicPassesWitness ==
    /\ before.rects # <<>>
    /\ ~before.pinned
    /\ pc = "returned"
    /\ root = Tiled
    /\ used # {}
    /\ Rects = before.rects

(* C13: round trip.  A second pass over the same tree, with every box edge *)
(* pinned to the value the first pass left in it, neither fails nor spins  *)
(* and returns the rectangles of the first pass.                           *)
RoundTrip ==
    before.pinned =>
        /\ pc # "panicked"
        /\ ~Spins
        /\ steps < MaxSteps
        /\ pc = "returned" => Rects = before.rects

\* a pinned pass over the three leaves has returned the rectangles of the
\* first, an edge being pinned at a distance other than 0
RoundTripWitness ==
    /\ before.pinned
    /\ pc = "returned"
    /\ root = Tiled
    /\ \E k \in 1..Len(added) : IsDistance(added[k]) /\ ~IsEquality(added[k])
    /\ used = {}
    /\ Rects = before.rects

\* the bounds of the Variable after a restrict by o are the intersection
\* with o, or the restrict panicked on an empty one and left the cells alone
Intersected(self, o) ==
    IF le(o.min, self.max) /\ le(self.min, o.max)
    THEN /\ pc' = "build"
         /\ cells' = <<IF gt(o.min, self.min) THEN o.min ELSE self.min>>
         /\ arena' = <<IF lt(o.max, self.max) THEN o.max ELSE self.max>>
    ELSE /\ pc' = "panicked"
         /\ cells' = cells
         /\ arena' = arena

(* C14: restrict(other) on well-formed intervals leaves the intersection   *)
(* [max(self.min, other.min), min(self.max, other.max)] when it is not     *)
(* empty, touching end points included, and panics, narrowing nothing,     *)
(* exactly when it is empty.                                               *)
RestrictIntersects ==
    [][\A o \in Intervals :
          Restrict_by(o) => Intersected(bounds(store, variables[1]), o)]_vars

\* a restrict has narrowed [0, 4] to the single point 4 where the two
\* intervals touch
RestrictIntersectsWitness ==
    /\ variables = <<[min |-> 1, max |-> 1]>>
    /\ pc = "build"
    /\ given = Store(<<zero>>, <<V(4)>>)
    /\ store = Store(<<V(4)>>, <<V(4)>>)

(* C15: in every state of a layout pass every registered Variable has     *)
(* min <= max.                                                             *)
BoundsOrdered ==
    \A k \in 1..Len(variables) :
        le(bounds(store, variables[k]).min, bounds(store, variables[k]).max)

\* the solver is at work on a Variable it has narrowed from both sides
\* and not yet resolved
BoundsOrderedWitness ==
    /\ pc \in {"solve", "bisect"}
    /\ steps > 0
    /\ \E k \in 1..Len(variables) :
          /\ IsFinite(bounds(store, variables[k]).min)
          /\ IsFinite(bounds(store, variables[k]).max)
          /\ lt(bounds(store, variables[k]).min,
                bounds(store, variables[k]).max)

(* C16 as stated: equal(a, b) appends exactly one Constraint, with the     *)
(* terms [+1*b, -1*a] in this order, bounds [0, 0] and priority 0.         *)
EqualAppendsBThenA ==
    [][\A a \in Registered, b \in Registered :
          Equal_of(a, b) =>
              constraints' =
                  Append(constraints,
                         Constraint(<<Term(one, b), Term(neg(one), a)>>, 0,
                                    Bounds(zero, zero)))]_vars

(* C16, with the terms as the code orders them: equal(a, b) appends to the *)
(* back of the queue exactly one Constraint, with the terms [+1*a, -1*b]   *)
(* in this order, bounds [0, 0] and priority 0.                            *)
EqualAppends ==
    [][\A a \in Registered, b \in Registered :
          Equal_of(a, b) =>
              constraints' =
                  Append(constraints,
                         Constraint(<<Term(one, a), Term(neg(one), b)>>, 0,
                                    Bounds(zero, zero)))]_vars

\* an equal over two different Variables is the last call made on a queue
\* that held a Constraint already
EqualAppendsWitness ==
    /\ pc = "build"
    /\ Len(constraints) = 2
    /\ IsEquality(constraints[2])
    /\ constraints[2].terms[1].var # constraints[2].terms[2].var

\* the k-th Variable an area() call has registered behind those of before
Registers(k) == variables'[Len(variables) + k]

\* the Constraint area() queues for a <= b
AreaOrder(a, b) ==
    Constraint(<<Term(one, a), Term(neg(one), b)>>, -1,
               Bounds(neg(infinity), zero))

(* C17: area(box) registers exactly four new Variables x1, y1, x2, y2,     *)
(* each with bounds [-infinity, +infinity] whatever the persistent cells   *)
(* held, and appends exactly the two orders x1 <= x2 and y1 <= y2, at      *)
(* priority -1, below the 0 of equal, distance and order; the Variables    *)
(* and Constraints that were there are as before.                          *)
AreaRegisters ==
    [][\A s \in HeldBefore :
          Area_on(s) =>
              /\ variables' = variables \o <<Registers(1), Registers(2),
                                              Registers(3), Registers(4)>>
              /\ \A j \in 1..4, k \in 1..Len(variables) + 4 :
                    Variable_eq(Registers(j), variables'[k])
                        <=> k = Len(variables) + j
              /\ \A j \in 1..4 :
                    bounds(Store(cells', arena'), Registers(j))
                        = Bounds(neg(infinity), infinity)
              /\ \A k \in 1..Len(variables) :
                    bounds(Store(cells', arena'), variables[k])
                        = bounds(store, variables[k])
              /\ areas' = Append(areas, BB(Registers(1), Registers(2),
                                           Registers(3), Registers(4)))
              /\ constraints' = constraints \o
                    <<AreaOrder(Registers(1), Registers(3)),
                      AreaOrder(Registers(2), Registers(4))>>
              /\ \A c \in {order_constraint(Registers(1), Registers(3)),
                             equal_constraint(Registers(1), Registers(3)),
                             distance_constraint(Registers(1), Registers(3),
                                                 one)} :
                    /\ c.priority = 0
                    /\ constraints'[Len(constraints) + 1].priority < c.priority
                    /\ constraints'[Len(constraints) + 2].priority
                           < c.priority]_vars

\* a second area() has run on a System that held an order at priority 0
AreaRegistersWitness ==
    /\ pc = "build"
    /\ Len(areas) = 2
    /\ Len(variables) = 10
    /\ Len(constraints) = 5
    /\ constraints[1].priority = 0
    /\ constraints[5].priority = -1

(* C18: every queued Constraint with at least one term has a first term    *)
(* of factor exactly 1, in every state of the builder calls and of the     *)
(* solver, and no factor assertion of the solver fails.                    *)
FirstFactorOne ==
    /\ \A k \in 1..Len(constraints) :
          constraints[k].terms # <<>> =>
              constraints[k].terms[1].factor = one
    /\ err # "assert"

\* the solver has queued a Constraint again whose terms it had to divide
\* by -1: no Constraint of the input has them
FirstFactorOneWitness ==
    /\ pc = "solve"
    /\ \E k \in 1..Len(constraints) :
          /\ Len(constraints[k].terms) = 2
          /\ \A j \in 1..Len(added) :
                \/ Len(added[j].terms) # 2
                \/ added[j].terms[1].var # constraints[k].terms[1].var
                \/ added[j].terms[2].var # constraints[k].terms[2].var

\* Strategy B is about to run and has a chain with a unit it will use
Chains ==
    /\ pc = "solve"
    /\ Len(constraints) <= age
    /\ steps < MaxSteps
    /\ chain(store, constraints).ch.seeded
    /\ lt(zero, chain(store, constraints).unit)
    /\ lt(chain(store, constraints).unit, infinity)

\* the largest max among the bounds of the Variables q
Highest(st, q) ==
    CHOOSE x \in {bounds(st, q[k]).max : k \in 1..Len(q)} :
        \A k \in 1..Len(q) : ge(x, bounds(st, q[k]).max)

\* the smallest min among the bounds of the Variables q
Lowest(st, q) ==
    CHOOSE x \in {bounds(st, q[k]).min : k \in 1..Len(q)} :
        \A k \in 1..Len(q) : le(x, bounds(st, q[k]).min)

RECURSIVE FixedLengths(_)
\* the sum of the lengths of the fixed spans of s
FixedLengths(s) ==
    IF s = <<>> THEN zero
    ELSE add(FixedLengths(SubSeq(s, 1, Len(s) - 1)),
             IF s[Len(s)].fixed THEN s[Len(s)].x ELSE zero)

\* the number of flexible spans of s
Flexible(s) == Cardinality({k \in 1..Len(s) : ~s[k].fixed})

\* (span - fixed lengths) / (flexible spans + pad) of the chain ch
UnitOver(st, ch, pad) ==
    div(sub(sub(Highest(st, ch.q), Lowest(st, ch.q)), FixedLengths(ch.s)),
        V(Flexible(ch.s) + pad))

(* C19 as stated: the flex unit of a chain of Strategy B is (span - sum of *)
(* the fixed-span lengths) / (number of flexible spans), span being the    *)
(* overall max minus the overall min of the bounds of its Variables.       *)
FlexUnit ==
    Chains =>
        chain(store, constraints).unit
            = UnitOver(store, chain(store, constraints).ch, 0)

(* C19, with the divisor of the code: the flex unit of a chain is (span -  *)
(* sum of the fixed-span lengths) / (number of flexible spans + 2).        *)
FlexUnitPadded ==
    Chains =>
        chain(store, constraints).unit
            = UnitOver(store, chain(store, constraints).ch, 2)

\* Strategy B has a chain with a fixed span of some length and a flexible
\* span
FlexUnitPaddedWitness ==
    /\ Chains
    /\ Flexible(chain(store, constraints).ch.s) > 0
    /\ gt(FixedLengths(chain(store, constraints).ch.s), zero)

\* a dequeue of Strategy A after which solve() goes on
Dequeues == Simplify /\ pc' = "solve"

\* the dequeue shrank the queue, or changed the bounds of a Variable, which
\* is also how a Variable becomes resolved
Shrinks == Len(constraints') < Len(constraints) \/ store' # store

\* the dequeue put the Constraint back as it was and changed no Variable
Idles ==
    /\ store' = store
    /\ constraints' = Append(Tail(constraints), Head(constraints))

(* C20: the staleness counter of Strategy A counts the consecutive         *)
(* dequeues since the last one that made progress: a dequeue that shrinks  *)
(* the queue or changes the bounds of a Variable resets it to zero, a      *)
(* dequeue that changes nothing adds one, and Strategy A goes on exactly   *)
(* while the counter is below the length of the queue.                     *)
StalenessCounts ==
    [][/\ (Dequeues /\ Shrinks) => age' = 0
       /\ (Dequeues /\ Idles) => age' = age + 1
       /\ Simplify => age < Len(constraints)
       /\ Chain => age >= Len(constraints)]_vars

(* C21: the strategies escalate in order.  Strategy B runs only when the   *)
(* staleness counter has reached the length of the queue; Strategy C is    *)
(* entered only from a Strategy B that assigned nothing in the same round; *)
(* after an assignment by B or C solve() is back in Strategy A with the    *)
(* counter at zero and a queue to work on; and "Could not solve" is raised *)
(* only by a Strategy C that found nothing, Strategy A being exhausted.    *)
EscalatesInOrder ==
    [][/\ Chain => age >= Len(constraints)
       /\ (pc' = "bisect") =>
              (Chain /\ store' = store /\ age' = age /\ used' = used)
       /\ Bisect => (pc = "bisect" /\ age >= Len(constraints) /\ age > 0)
       /\ ((Chain \/ Bisect) /\ store' # store /\ pc' # "panicked") =>
              (pc' = "solve" /\ age' = 0 /\ Len(constraints') > age')
       /\ (err' = "Could not solve") =>
              (Bisect /\ store' = store /\ age >= Len(constraints))]_vars

\* solve() has returned from Strategy A after a round in which Strategy B
\* assigned nothing and Strategy C placed a Variable
EscalatesInOrderWitness ==
    /\ pc = "returned"
    /\ used = {"C"}
    /\ age = 0


\* the front Constraint as the merge loop of Strategy A sees it: resolved
\* terms eliminated, bounds tightened, terms sorted and normalized
Dequeued ==
    LET e == eliminate(store, Head(constraints).terms, 1,
                 [terms |-> <<>>, bounds |-> Head(constraints).bounds,
                  new_bounds |-> Bounds_equal(zero), modified |-> FALSE])
        sorted == sort_terms(e.terms)
    IN  Constraint(normalize_terms(sorted), Head(constraints).priority,
                   normalize_bounds(sorted,
                       restrict(e.bounds, e.new_bounds).b))

\* the Variables of a Constraint with their coefficients
Coefficients(c) == {<<c.terms[k].var, c.terms[k].factor>> : k \in 1..Len(c.terms)}

\* the queued Constraints with the Variables and coefficients of the front one
Twins ==
    {m \in 1..(Len(constraints) - 1) :
        /\ Len(constraints[m + 1].terms) = Len(Dequeued.terms)
        /\ Coefficients(constraints[m + 1]) = Coefficients(Dequeued)}

\* the intersection of two intervals
Meet(x, y) ==
    Bounds(IF gt(y.min, x.min) THEN y.min ELSE x.min,
           IF lt(y.max, x.max) THEN y.max ELSE x.max)

(* C22: an iteration of Strategy A that does not panic and whose dequeued  *)
(* Constraint, eliminated and normalized, has the Variables and the        *)
(* coefficients of a queued one leaves the queue one shorter, that queued  *)
(* Constraint with the intersection of both bounds and every Variable as   *)
(* it was; without such a queued Constraint a dequeued one with two or     *)
(* more remaining terms is the last of the queue afterwards.               *)
MergeOrPush ==
    [][(Simplify /\ pc' # "panicked") =>
          IF Twins # {}
          THEN /\ \E m \in Twins :
                     constraints' =
                         [Tail(constraints) EXCEPT
                             ![m].bounds = Meet(@, Dequeued.bounds)]
               /\ Len(constraints') = Len(constraints) - 1
               /\ store' = store
          ELSE Len(Dequeued.terms) >= 2 =>
                   /\ Len(constraints') = Len(constraints)
                   /\ constraints'[Len(constraints')] = Dequeued]_vars

\* the first iteration of solve() has merged an order Constraint into the
\* queued distance Constraint between the same two unresolved Variables
MergeOrPushWitness ==
    /\ pc = "solve"
    /\ steps = 1
    /\ Len(added) = 2
    /\ IsOrder(added[1])
    /\ IsDistance(added[2])
    /\ Len(constraints) = 1
    /\ constraints[1].terms = added[2].terms
    /\ constraints[1].terms[1].var # constraints[1].terms[2].var
    /\ \A k \in 1..Len(variables) : ~resolved(store, variables[k])
    /\ store = given

\* the front Constraint reaches the two-term narrowing as a - b in [lo, hi]
\* with a and b two unresolved Variables
Narrows ==
    /\ Simplify
    /\ pc' # "panicked"
    /\ Len(Head(constraints).terms) = 2
    /\ Len(Dequeued.terms) = 2
    /\ Dequeued.terms[1].factor = one
    /\ Dequeued.terms[2].factor = neg(one)
    /\ Dequeued.terms[1].var # Dequeued.terms[2].var
    /\ Twins = {}

\* the bounds of the front Constraint were tightened by its Variables' bounds
Tightened ==
    ~Bounds_eq(Dequeued.bounds,
               normalize_bounds(sort_terms(Head(constraints).terms),
                                Head(constraints).bounds))

\* the step changed the bounds of the Variable v
Moved(v) == ~Bounds_eq(bounds(store', v), bounds(store, v))

(* C23: an iteration of Strategy A that does not panic on a Constraint     *)
(* a - b in [lo, hi] with a and b unresolved leaves a with the             *)
(* intersection of its bounds and (b's bounds + [lo, hi]) and b with the   *)
(* intersection of its bounds and (a's bounds before the step -            *)
(* [lo, hi]); the Constraint is in the queue afterwards with its priority, *)
(* and age is reset exactly when the bounds of a, of b or of the           *)
(* Constraint were narrowed, and is one larger otherwise.                  *)
TwoTermNarrowing ==
    [][Narrows =>
          /\ bounds(store', Dequeued.terms[1].var) =
                 Meet(bounds(store, Dequeued.terms[1].var),
                      Bounds_add(bounds(store, Dequeued.terms[2].var),
                                 Dequeued.bounds))
          /\ bounds(store', Dequeued.terms[2].var) =
                 Meet(bounds(store, Dequeued.terms[2].var),
                      Bounds_sub(bounds(store, Dequeued.terms[1].var),
                                 Dequeued.bounds))
          /\ Len(constraints') = Len(constraints)
          /\ constraints'[Len(constraints')] = Dequeued
          /\ constraints'[Len(constraints')].priority =
                 Head(constraints).priority
          /\ age' = IF \/ Moved(Dequeued.terms[1].var)
                       \/ Moved(Dequeued.terms[2].var)
                       \/ Tightened
                    THEN 0 ELSE age + 1]_vars

\* Strategy A is running and has narrowed an unresolved Variable that only
\* occurs in Constraints whose Variables are all unresolved, so that only
\* the two-term narrowing can have done it
TwoTermNarrowingWitness ==
    /\ pc = "solve"
    /\ constraints # <<>>
    /\ \E k \in 1..Len(variables) :
          /\ ~resolved(store, variables[k])
          /\ bounds(store, variables[k]) # bounds(given, variables[k])
          /\ \A i \in 1..Len(added) :
                Mentions(added[i], variables[k]) =>
                    \A t \in 1..Len(added[i].terms) :
                        ~resolved(store, added[i].terms[t].var)

\* the positions of the registered Variables with two finite, different ends
Ranged ==
    {k \in 1..Len(variables) :
        /\ IsFinite(cells[variables[k].min])
        /\ IsFinite(arena[variables[k].max])
        /\ lt(cells[variables[k].min], arena[variables[k].max])}

\* half the sum of the two ends of variables[k]
Middle(k) ==
    div(add(cells[variables[k].min], arena[variables[k].max]), V(2))

(* C24: a step of Strategy C that finds a Variable with                    *)
(* -infinity < min < max < +infinity resolves the first such Variable in   *)
(* registration order to (min + max) / 2, changes that Variable and no     *)
(* other, leaves the queue as it was and goes back to Strategy A; a step   *)
(* that finds none changes nothing and is the panic.                       *)
BisectsOne ==
    [][Bisect =>
          /\ constraints' = constraints
          /\ IF Ranged = {}
             THEN pc' = "panicked" /\ store' = store
             ELSE /\ pc' = "solve"
                  /\ \E k \in Ranged :
                        /\ \A j \in Ranged : k <= j
                        /\ bounds(store', variables[k]) =
                               Bounds(Middle(k), Middle(k))
                        /\ bounds(store', variables[k]) #
                               bounds(store, variables[k])
                        /\ \A j \in 1..Len(variables) :
                              j # k => bounds(store', variables[j]) =
                                           bounds(store, variables[j])]_vars

\* Strategy C has resolved a Variable and left a Variable registered after
\* it with two finite, different ends
BisectsOneWitness ==
    /\ pc = "solve"
    /\ used = {"C"}
    /\ age = 0
    /\ \E k \in Ranged : \E j \in 1..(k - 1) :
          /\ resolved(store, variables[j])
          /\ ~resolved(given, variables[j])

RECURSIVE Pairs(_)
\* the number of flow pairs in the tree t
Pairs(t) == IF t.kind = "flow" THEN 1 + Pairs(t.a) + Pairs(t.b) ELSE 0

RECURSIVE Corners(_, _, _)
\* the box of Variables of the tree t whose first box is bbs[k]: for a flow
\* pair (first.x1, first.y1, second.x2, second.y2) after the swap
Corners(bbs, t, k) ==
    IF t.kind # "flow" THEN bbs[k]
    ELSE IF t.dir \in {"up", "left"}
    THEN BB(Corners(bbs, t.b, k + boxes(t.a)).x1,
            Corners(bbs, t.b, k + boxes(t.a)).y1,
            Corners(bbs, t.a, k).x2, Corners(bbs, t.a, k).y2)
    ELSE BB(Corners(bbs, t.a, k).x1, Corners(bbs, t.a, k).y1,
            Corners(bbs, t.b, k + boxes(t.a)).x2,
            Corners(bbs, t.b, k + boxes(t.a)).y2)

\* the Constraint that says u == v
Equates(u, v) ==
    Constraint(<<Term(one, u), Term(neg(one), v)>>, 0, Bounds_equal(zero))

\* the three equalities of a flow pair with boxes A and R of A and the rest
Joins(dir, A, R) ==
    IF dir = "down"
    THEN <<Equates(A.x1, R.x1), Equates(A.x2, R.x2), Equates(A.y2, R.y1)>>
    ELSE IF dir = "right"
    THEN <<Equates(A.y1, R.y1), Equates(A.y2, R.y2), Equates(A.x2, R.x1)>>
    ELSE IF dir = "up"
    THEN <<Equates(R.x1, A.x1), Equates(R.x2, A.x2), Equates(R.y2, A.y1)>>
    ELSE <<Equates(R.y1, A.y1), Equates(R.y2, A.y2), Equates(R.x2, A.x1)>>

(* C25: the first compute() on a flow pair (A, rest) queues, after          *)
(* everything its children queue, exactly the three equalities of its      *)
(* direction, with A and rest swapped for up and left, and the queue holds *)
(* three equalities per flow pair of the tree; the box collect returns,    *)
(* which compute pins to the viewport, is (first.x1, first.y1, second.x2,  *)
(* second.y2) after the swap, and when the pass has returned bb() of the   *)
(* root reads that same box, the viewport, back.                           *)
FlowJoins ==
    [][/\ (Compute /\ root'.kind = "flow") =>
             /\ SubSeq(added', Len(added') - 2, Len(added')) =
                    Joins(root'.dir, Corners(areas', root'.a, 1),
                          Corners(areas', root'.b, 1 + boxes(root'.a)))
             /\ Cardinality({k \in 1..Len(added') : IsEquality(added'[k])}) =
                    3 * Pairs(root')
             /\ pc' = "solve" =>
                    /\ value(given', Corners(areas', root', 1).x1) = zero
                    /\ value(given', Corners(areas', root', 1).y1) = zero
                    /\ value(given', Corners(areas', root', 1).x2) =
                           viewport'[1]
                    /\ value(given', Corners(areas', root', 1).y2) =
                           viewport'[2]
                    /\ resolved(given', Corners(areas', root', 1).x2)
                    /\ resolved(given', Corners(areas', root', 1).y2)
       /\ (pc' = "returned" /\ root'.kind = "flow") =>
             (Layout_bb(root, 1))' =
                 BB(zero, zero, viewport'[1], viewport'[2])]_vars

\* compute() has returned on flow![up: a, b] with a viewport that has a
\* width and a height: the second child is above the first
FlowJoinsWitness ==
    /\ pc = "returned"
    /\ root = Flow("up", Leaf, Leaf)
    /\ lt(zero, viewport[1])
    /\ lt(zero, viewport[2])
    /\ Layout_bb(root, 1) = BB(zero, zero, viewport[1], viewport[2])
    /\ bb(1).y1 = bb(2).y2

\* the values an assignment gives a Variable, each of them an f32
Values ==
    {V(-2), V(0), V(2), V(33554430), V(33554432), V(33554436)}

\* the assignments of the registered Variables
Assignments == [1..Len(variables) -> Values]

RECURSIVE Total(_, _, _)
\* the sum of the terms k.. under the assignment s, not rounded
Total(s, terms, k) ==
    IF k > Len(terms) THEN zero
    ELSE plus(IF terms[k].factor = one THEN s[terms[k].var.min]
              ELSE neg(s[terms[k].var.min]),
              Total(s, terms, k + 1))

\* the assignment s lies within all bounds of st and satisfies the queue
Fits(s, st, queue) ==
    /\ \A k \in 1..Len(variables) :
          /\ le(st.cells[variables[k].min], s[k])
          /\ le(s[k], st.arena[variables[k].max])
    /\ \A i \in 1..Len(queue) :
          /\ le(queue[i].bounds.min, Total(s, queue[i].terms, 1))
          /\ le(Total(s, queue[i].terms, 1), queue[i].bounds.max)

(* C26: an iteration of Strategy A on a System built call by call, with an *)
(* assignment that lies within all Variables' bounds and satisfies every   *)
(* queued Constraint, panics neither in a restrict nor in an assertion,    *)
(* and the same assignment lies within all bounds and satisfies every      *)
(* queued Constraint afterwards.                                           *)
StrategyASound ==
    [][(Simplify /\ root = NoRoot) =>
          \A s \in Assignments :
              Fits(s, store, constraints) =>
                  /\ err' \notin {"restrict", "assert"}
                  /\ Fits(s, store', constraints')]_vars

(* C27: every step of solve(), in Strategy A, B or C, leaves the lower     *)
(* bound of every registered Variable unchanged or larger and its upper    *)
(* bound unchanged or smaller, and leaves a resolved Variable resolved at  *)
(* the value it has.                                                       *)
OnlyNarrow ==
    [][Solving =>
          \A k \in 1..Len(variables) :
              /\ le(bounds(store, variables[k]).min,
                    bounds(store', variables[k]).min)
              /\ le(bounds(store', variables[k]).max,
                    bounds(store, variables[k]).max)
              /\ resolved(store, variables[k]) =>
                     /\ resolved(store', variables[k])
                     /\ value(store', variables[k]) =
                            value(store, variables[k])]_vars

\* solve() is running, has resolved one Variable it was entered with
\* unresolved and has narrowed another one without resolving it
OnlyNarrowWitness ==
    /\ pc = "solve"
    /\ \E k \in 1..Len(variables), j \in 1..Len(variables) :
          /\ ~resolved(store, variables[k])
          /\ bounds(store, variables[k]) # bounds(given, variables[k])
          /\ ~resolved(given, variables[j])
          /\ resolved(store, variables[j])

\* the chain Strategy B is about to assign
Chosen == chain(store, constraints).ch

\* the step of a link of the chain by the unit u
Stride(link, u) == IF link.fixed THEN link.x ELSE u

(* C28: a step of Strategy B on a chain with a usable unit does not panic, *)
(* the chain has one link less than it has Variables, its first Variable   *)
(* is resolved to min + unit, each following one to the value of the one   *)
(* before plus the fixed length or the unit of its link, and the last one  *)
(* to max - unit, min and max being the smallest lower and the largest     *)
(* upper bound over the chain's Variables before the step.                 *)
ChainSymmetric ==
    [][(Chain /\ Chains) =>
          /\ pc' # "panicked"
          /\ Len(Chosen.s) = Len(Chosen.q) - 1
          /\ \A k \in 1..Len(Chosen.q) : resolved(store', Chosen.q[k])
          /\ value(store', Chosen.q[1]) =
                 add(Lowest(store, Chosen.q), chain(store, constraints).unit)
          /\ \A k \in 2..Len(Chosen.q) :
                value(store', Chosen.q[k]) =
                    add(value(store', Chosen.q[k - 1]),
                        Stride(Chosen.s[k - 1],
                               chain(store, constraints).unit))
          /\ value(store', Chosen.q[Len(Chosen.q)]) =
                 sub(Highest(store, Chosen.q),
                     chain(store, constraints).unit)]_vars

\* the current index of a Set is a position of a tab, or 0 in an empty Set
Positioned(s) ==
    IF s.tabs = <<>> THEN s.current = 0 ELSE s.current < Len(s.tabs)

(* C30: every add, remove and MouseDown on a tab Set leaves the current    *)
(* index a valid position (current < number of tabs) when the Set is not   *)
(* empty and 0 when it is; add inserts at an index not greater than the    *)
(* number of tabs, so that it does not panic, and remove returns None      *)
(* exactly when the Set is empty.                                          *)
TabIndex ==
    [][(Add \/ Remove \/ MouseDown) =>
          /\ Positioned(set')
          /\ ~set'.panicked
          /\ Add => /\ set'.at <= Len(set.tabs)
                    /\ set'.tabs[set'.at + 1] \in Tabs
                    /\ Len(set'.tabs) = Len(set.tabs) + 1
          /\ Remove => ((set'.returned = "None") <=> (set.tabs = <<>>))]_vars

\* a remove has taken the last of three tabs, which a MouseDown had made
\* the current one, and the one before it is now current
TabIndexWitness ==
    /\ set # NoSet
    /\ set.returned = "Some"
    /\ Len(set.tabs) = 2
    /\ set.current = 1

(* C29: whenever Rustc::update() receives Res::Done the state of the       *)
(* client is Compiling: the assertion in update() never fails, whatever    *)
(* the order of the compiler threads' messages and the Editor's Update     *)
(* handling.                                                               *)
DoneWhileCompiling ==
    editor # NoEditor =>
        /\ editor.rustc.failed # "Done"
        /\ editor.new_rustc # None => editor.new_rustc.failed # "Done"

=============================================================================
